---- MODULE Spec2Model ----
(***************************************************************************)
(* rsreit: the windowed block I/O and edit-overlay engine.                 *)
(*                                                                         *)
(* One open file: its bytes on disk, the cached length, the window         *)
(* (Block), the patch overlay (BTreeMap<u64, Vec<u8>>), the undo and redo  *)
(* logs and the search hit groups.  The main loop (crossterm.rs run_app)   *)
(* handles one input and then calls sync_file, so every action below is a  *)
(* handler followed by sync_file.  A Rust panic (slice or splice index out *)
(* of range) ends the process: `fault` becomes TRUE and nothing moves.     *)
(*                                                                         *)
(* Byte offsets are 0-based as in the source; TLA+ sequences are 1-based,  *)
(* so the byte at file offset o is disk[o + 1].                            *)
(*                                                                         *)
(* Scaling.  WRITE_BLOCK is 2048 = 2^11 in the source and 2^WriteBlockBits *)
(* here; element widths are 1/2/4/8 bytes in the source and ElementSizes   *)
(* here; the digit buffer of a tab has 64 slots in the source (the digits  *)
(* of the largest element in binary) and InsertSlots here, and MaxDigits   *)
(* bounds the elements whose digits SpecEdit types; offsets are u64 in the *)
(* source and unsigned integers of OffsetBits bits here.  Reads of a       *)
(* regular file are taken to return every byte available (min(size, len -  *)
(* offset)), and the file is not changed by anyone else.                   *)
(***************************************************************************)
EXTENDS Integers, Sequences, FiniteSets, TLC

\* ------------------------------------------------------------------ bounds
WriteBlockBits == 1
FileLen == 3
MaxSize == 2
MaxEdits == 2
MaxGroups == 1
SearchLen == 5
SearchGroups == 2
MaxDigits == 8
OffsetBits == 4

\* -------------------------------------------------------- program constants
WRITE_BLOCK == 2 ^ WriteBlockBits
FILL == 255

ElementSizes == {1, 2}

Min(a, b) == IF a < b THEN a ELSE b
Minimum(S) == CHOOSE x \in S : \A y \in S : x <= y

\* ------------------------------------------------------------- Vec<u8> ops
\* Vec::resize(n, 0): truncate, or extend with zeros
resize(buf, n) ==
    [i \in 1..n |-> IF i <= Len(buf) THEN buf[i] ELSE 0]

\* wrong variant: the padding is a byte that files and patterns hold
fill_low(buf, from, to) ==
    [i \in 1..Len(buf) |-> IF from < i /\ i <= to THEN 1 ELSE buf[i]]

\* buf[from..to].fill(0xFF), 0-based half-open range, to <= len
fill(buf, from, to) ==
    [i \in 1..Len(buf) |-> IF from < i /\ i <= to THEN FILL ELSE buf[i]]

\* wrong variant: buf.splice(bmin..bmin, run), the run is put in before the
\* bytes it should replace
splice_insert(buf, bmin, run) ==
    SubSeq(buf, 1, bmin) \o run \o SubSeq(buf, bmin + 1, Len(buf))

\* buf.splice(bmin..bmin+len(run), run): same-length replace, bmax <= len
splice(buf, bmin, run) ==
    [i \in 1..Len(buf) |->
        IF bmin < i /\ i <= bmin + Len(run) THEN run[i - bmin] ELSE buf[i]]

\* &buf[min..max], 0-based half-open, max <= len
slice(buf, min, max) ==
    [i \in 1..(max - min) |-> buf[min + i]]

\* -------------------------------------------------- BTreeMap<u64, Vec<u8>>
\* the overlay is a set of <<key, run>> with one run per key
Keys(p) == {e[1] : e \in p}
Run(p, k) == (CHOOSE e \in p : e[1] = k)[2]

\* wrong variant: a shorter run is written over the head of the earlier run,
\* whose tail stays
do_update_patch_merge(p, key, value) ==
    LET old == IF key \in Keys(p) THEN Run(p, key) ELSE <<>>
        merged == IF Len(old) > Len(value)
                  THEN value \o SubSeq(old, Len(value) + 1, Len(old))
                  ELSE value
    IN  {e \in p : e[1] # key} \cup {<<key, merged>>}

\* BTreeMap::insert: whole-run replace
do_update_patch(p, key, value) ==
    {e \in p : e[1] # key} \cup {<<key, value>>}

\* ------------------------------------------------------------------ Block
Block_new(sz) ==
    [buffer |-> <<>>, source |-> <<>>, offset |-> 0, size |-> sz,
     prev_offset |-> 0, prev_size |-> 0]

\* ------------------------------------------------------ Files::read_block
\* io: "ok", or the call that returns Err: "seek" or "read".
\* status: "ok" | "err" (an io::Error is returned) | "panic".
read_block(d, sz, off, len, buf, io) ==
    LET inside == off < len
        resized == IF inside THEN resize(buf, sz) ELSE buf
        avail == IF Len(d) > off THEN Len(d) - off ELSE 0
        nb_read == IF inside THEN Min(sz, avail) ELSE 0
        got == [i \in 1..Len(resized) |->
                   IF i <= nb_read THEN d[off + i] ELSE resized[i]]
    IN  IF inside /\ io = "seek" THEN [buffer |-> buf, status |-> "err"]
        ELSE IF inside /\ io = "read" THEN [buffer |-> resized, status |-> "err"]
        ELSE IF sz > Len(got) THEN [buffer |-> got, status |-> "panic"]
        ELSE [buffer |-> fill(got, nb_read, sz), status |-> "ok"]

\* --------------------------------------------------- Files::do_apply_patch
RECURSIVE apply_range(_, _, _, _)
apply_range(buf, min, p, ks) ==
    IF ks = {} THEN [buffer |-> buf, status |-> "ok"]
    ELSE LET key == Minimum(ks)
             value == Run(p, key)
             bmin == key - min
             bmax == bmin + Len(value)
         IN  IF bmax > Len(buf) THEN [buffer |-> buf, status |-> "panic"]
             ELSE apply_range(splice(buf, bmin, value), min, p, ks \ {key})

\* u64::MAX, scaled
U64_MAX == 2 ^ OffsetBits - 1

\* min and max of do_apply_patch.  `block.offset + block.size` on u64 with a
\* sum above u64::MAX is a panic where the build checks overflow; elsewhere
\* the sum wraps to max < min and BTreeMap::range panics on a range whose
\* start is above its end: ok is FALSE in both builds
key_range(blk) ==
    LET sum == blk.offset + blk.size
        max == sum % (U64_MAX + 1)
    IN  [min |-> blk.offset, max |-> max,
         ok |-> sum <= U64_MAX /\ blk.offset <= max]

do_apply_patch(blk, p) ==
    LET kr == key_range(blk)
    IN  IF ~kr.ok THEN [buffer |-> blk.buffer, status |-> "panic"]
        ELSE apply_range(blk.buffer, kr.min, p,
                         {k \in Keys(p) : kr.min <= k /\ k < kr.max})

\* ------------------------------------------------------------ file record
VARIABLES
    disk,       \* the file's bytes on disk
    size,       \* File.size: the length cached by the last successful load
    block,      \* File.block: the window
    patch,      \* File.patch: the overlay
    undo,       \* File.undo
    redo,       \* File.redo
    hhits,      \* File.hhits: the hit groups and the selected group
    fault,      \* TRUE once the process has panicked
    lastread,   \* the bytes the last successful load read from disk (history)
    last,       \* the handler that ran last (history)
    edited,     \* per file offset, the byte the most recent edit gave it
                \* (history); Void once an undo or redo has rewritten the overlay
    tab         \* Tab: the insert state of the current tab (element display
                \* and mode, digit buffer, insert index, cursor position),
                \* followed keystroke by keystroke in SpecEdit; elsewhere the
                \* decoded run and the cursor position of an edit are drawn

vars ==
    <<disk, size, block, patch, undo, redo, hhits, fault, lastread, last, edited,
      tab>>

\* the record the operators below work on
St ==
    [disk |-> disk, size |-> size, block |-> block, patch |-> patch,
     undo |-> undo, redo |-> redo, hhits |-> hhits, fault |-> fault,
     lastread |-> lastread]

NEW_BLOCK_SIZE == 2 ^ WriteBlockBits

\* HHits::default
HHits_default == [hits |-> <<>>, selected |-> 0]

\* Hits::new
Hits_new(flag) == [hits |-> <<>>, flag |-> flag, selected |-> 0]

\* Files::new, with the file's bytes
File_new(d) ==
    [disk |-> d, size |-> 0, block |-> Block_new(NEW_BLOCK_SIZE), patch |-> {},
     undo |-> <<>>, redo |-> <<>>, hhits |-> HHits_default, fault |-> FALSE,
     lastread |-> <<>>]

\* ------------------------------------------------------------- window load
\* wrong variant: the window is reloaded on every sync
need_block_always(s) == TRUE

need_block(s) ==
    s.block.offset # s.block.prev_offset \/ s.block.size # s.block.prev_size

\* App::read_block.  io = "open": File::open or fs::metadata returns Err.
app_read_block(s, io) ==
    IF io = "open" THEN s
    ELSE LET len == Len(s.disk)
             r == read_block(s.disk, s.block.size, s.block.offset, len,
                             s.block.buffer, io)
         IN  IF r.status = "panic" THEN [s EXCEPT !.fault = TRUE]
             ELSE IF r.status = "err" THEN [s EXCEPT !.block.buffer = r.buffer]
             ELSE [s EXCEPT !.block.buffer = r.buffer,
                            !.lastread = r.buffer,
                            !.block.source = r.buffer,
                            !.block.prev_offset = s.block.offset,
                            !.block.prev_size = s.block.size,
                            !.size = len]

\* App::sync_file
sync_file(s, io) ==
    LET s1 == IF need_block(s) THEN app_read_block(s, io) ELSE s
        a == do_apply_patch(s1.block, s1.patch)
    IN  IF s1.fault THEN s1
        ELSE IF a.status = "panic" THEN [s1 EXCEPT !.fault = TRUE]
        ELSE [s1 EXCEPT !.block.buffer = a.buffer]

LoadIO == {"ok"}

\* the states sync_file can leave, over the I/O outcomes of its load
Sync(s) ==
    IF s.fault THEN {s}
    ELSE {sync_file(s, io) : io \in IF need_block(s) THEN LoadIO ELSE {"ok"}}

\* ------------------------------------------------------------------- edits
Data_new(off, data) == [offset |-> off, data |-> data]

\* wrong variant: the edit also goes straight to the file
handle_insert_through(s, pos, vv) ==
    LET min == pos
        max == min + Len(vv)
        key == s.block.offset + pos
        buf == s.block.buffer
        u1 == Append(s.undo, Data_new(key, slice(buf, min, max)))
        spliced == splice(buf, min, vv)
        u2 == Append(u1, Data_new(key, slice(spliced, min, max)))
    IN  IF max > Len(buf) THEN [s EXCEPT !.fault = TRUE]
        ELSE [s EXCEPT !.undo = u2,
                       !.block.buffer = spliced,
                       !.patch = do_update_patch(s.patch, key, vv),
                       !.disk = [i \in 1..Len(s.disk) |->
                                    IF key < i /\ i <= key + Len(vv)
                                    THEN vv[i - key] ELSE s.disk[i]]]

\* wrong variant: only the bytes after the edit are logged
handle_insert_post_only(s, pos, vv) ==
    LET min == pos
        max == min + Len(vv)
        key == s.block.offset + pos
        buf == s.block.buffer
        spliced == splice(buf, min, vv)
        u2 == Append(s.undo, Data_new(key, slice(spliced, min, max)))
    IN  IF max > Len(buf) THEN [s EXCEPT !.fault = TRUE]
        ELSE [s EXCEPT !.undo = u2,
                       !.block.buffer = spliced,
                       !.patch = do_update_patch(s.patch, key, vv)]

\* wrong variant: the edit empties the redo log
handle_insert_clear_redo(s, pos, vv) ==
    LET min == pos
        max == min + Len(vv)
        key == s.block.offset + pos
        buf == s.block.buffer
        u1 == Append(s.undo, Data_new(key, slice(buf, min, max)))
        spliced == splice(buf, min, vv)
        u2 == Append(u1, Data_new(key, slice(spliced, min, max)))
    IN  IF max > Len(buf) THEN [s EXCEPT !.fault = TRUE]
        ELSE [s EXCEPT !.undo = u2,
                       !.redo = <<>>,
                       !.block.buffer = spliced,
                       !.patch = do_update_patch(s.patch, key, vv)]

\* App::handle_insert when do_flush_input decoded the run vv at cursor pos
handle_insert(s, pos, vv) ==
    LET min == pos
        max == min + Len(vv)
        key == s.block.offset + pos
        buf == s.block.buffer
        u1 == Append(s.undo, Data_new(key, slice(buf, min, max)))
        spliced == splice(buf, min, vv)
        u2 == Append(u1, Data_new(key, slice(spliced, min, max)))
    IN  IF max > Len(buf) THEN [s EXCEPT !.fault = TRUE]
        ELSE [s EXCEPT !.undo = u2,
                       !.block.buffer = spliced,
                       !.patch = do_update_patch(s.patch, key, vv)]

\* Wrong variants of the log operations, against which the undo/redo
\* properties are validated.
\* pop().unwrap(): faults on an empty log
undo_step_unwrap(s) ==
    IF s.undo = <<>> THEN [s EXCEPT !.fault = TRUE]
    ELSE LET data == s.undo[Len(s.undo)]
         IN  [s EXCEPT !.undo = SubSeq(s.undo, 1, Len(s.undo) - 1),
                       !.patch = do_update_patch(s.patch, data.offset, data.data),
                       !.redo = Append(s.redo, data)]

\* moves the entry back without setting the overlay
redo_step_keep(s) ==
    IF s.redo = <<>> THEN s
    ELSE LET data == s.redo[Len(s.redo)]
         IN  [s EXCEPT !.redo = SubSeq(s.redo, 1, Len(s.redo) - 1),
                       !.undo = Append(s.undo, data)]

\* takes the entry's offset out of the overlay instead of setting it
undo_step_remove(s) ==
    IF s.undo = <<>> THEN s
    ELSE LET data == s.undo[Len(s.undo)]
         IN  [s EXCEPT !.undo = SubSeq(s.undo, 1, Len(s.undo) - 1),
                       !.patch = {e \in s.patch : e[1] # data.offset},
                       !.redo = Append(s.redo, data)]

\* one pass of the loop body of do_undo: pop undo, set the overlay, push redo
undo_step(s) ==
    IF s.undo = <<>> THEN s
    ELSE LET data == s.undo[Len(s.undo)]
         IN  [s EXCEPT !.undo = SubSeq(s.undo, 1, Len(s.undo) - 1),
                       !.patch = do_update_patch(s.patch, data.offset, data.data),
                       !.redo = Append(s.redo, data)]

\* wrong variant: pops one entry, not the pair
do_undo_once(s) == undo_step(s)

do_undo(s) == undo_step(undo_step(s))

redo_step(s) ==
    IF s.redo = <<>> THEN s
    ELSE LET data == s.redo[Len(s.redo)]
         IN  [s EXCEPT !.redo = SubSeq(s.redo, 1, Len(s.redo) - 1),
                       !.patch = do_update_patch(s.patch, data.offset, data.data),
                       !.undo = Append(s.undo, data)]

\* wrong variant: the pair goes back to the undo log, and the overlay is left
\* with the bytes of the entry popped first
do_redo_pre(s) ==
    LET t == redo_step(redo_step(s))
        top == s.redo[Len(s.redo)]
    IN  IF s.redo = <<>> THEN s
        ELSE [t EXCEPT !.patch = do_update_patch(t.patch, top.offset, top.data)]

\* wrong variant: moves one entry back, not the pair
do_redo_once(s) == redo_step(s)

do_redo(s) == redo_step(redo_step(s))

\* ------------------------------------------------------ insert-mode digits
\* Characters are their ASCII codes, as in insert_vector: [u8; 64].
\* ElementDisplay is kept as its size in bytes (element_display_size).
ElementModes == {"Hex", "Dec", "Oct", "Bin"}

element_mode_size(mode) ==
    CASE mode = "Hex" -> 2
      [] mode = "Dec" -> 3
      [] mode = "Oct" -> 3
      [] mode = "Bin" -> 8

element_mode_base(mode) ==
    CASE mode = "Hex" -> 16
      [] mode = "Dec" -> 10
      [] mode = "Oct" -> 8
      [] mode = "Bin" -> 2

\* Tabs::element_input_size
element_input_size(ti) == ti.element_display * element_mode_size(ti.element_mode)

\* insert_vector: [u8; 64], the digits of the largest element in binary
InsertSlots ==
    element_mode_size("Bin")
        * CHOOSE n \in ElementSizes : \A k \in ElementSizes : k <= n

\* Tabs::add: the tab of a newly opened file; the digit buffer holds NULs
Tab_new ==
    [element_display |-> 1, element_mode |-> "Hex", insert_mode |-> FALSE,
     insert_index |-> 0, insert_vector |-> [i \in 1..InsertSlots |-> 0],
     cursor_pos |-> 0]

\* char::to_digit(radix), radix <= 16: -1 stands for None
to_digit(c, radix) ==
    LET d == IF 48 <= c /\ c <= 57 THEN c - 48
             ELSE IF 97 <= c /\ c <= 102 THEN c - 97 + 10
             ELSE IF 65 <= c /\ c <= 70 THEN c - 65 + 10
             ELSE -1
    IN  IF d >= 0 /\ d < radix THEN d ELSE -1

\* the digit loop of from_str_radix: checked_mul, then checked_add, on an
\* unsigned integer of `bits` bits; -1 stands for Err
RECURSIVE parse_digits(_, _, _, _)
parse_digits(s, radix, bits, acc) ==
    IF s = <<>> THEN acc
    ELSE LET d == to_digit(Head(s), radix)
             mul == acc * radix
         IN  IF d < 0 THEN -1
             ELSE IF mul >= 2 ^ bits THEN -1
             ELSE IF mul + d >= 2 ^ bits THEN -1
             ELSE parse_digits(Tail(s), radix, bits, mul + d)

\* wrong variant: the value wraps around instead of failing
from_str_radix_wrapping(s, radix, bits) ==
    LET wide == parse_digits(s, radix, bits + 8, 0)
    IN  IF s = <<>> \/ wide < 0 THEN -1 ELSE wide % (2 ^ bits)

\* <uN>::from_str_radix: an empty string is an error, one leading '+' is
\* accepted when digits follow
from_str_radix(s, radix, bits) ==
    IF s = <<>> THEN -1
    ELSE IF Head(s) = 43
        THEN IF Len(s) = 1 THEN -1 ELSE parse_digits(Tail(s), radix, bits, 0)
    ELSE parse_digits(s, radix, bits, 0)

\* <uN>::to_le_bytes, N = 8 * n
to_le_bytes(v, n) == [i \in 1..n |-> (v \div (256 ^ (i - 1))) % 256]

\* App::do_flush_input with flush_input_item!: r, and vv when r is TRUE
do_flush_input(input, isize, display_size, base) ==
    LET s == SubSeq(input, 1, isize)
        v == from_str_radix(s, base, 8 * display_size)
    IN  IF display_size \in ElementSizes /\ v >= 0
        THEN [r |-> TRUE, vv |-> to_le_bytes(v, display_size)]
        ELSE [r |-> FALSE, vv |-> <<>>]

\* wrong variant: the index stops at the last slot
insert_index_next_stop(ti) ==
    LET insert_index == ti.insert_index + 1
    IN  [ti EXCEPT !.insert_index =
            IF insert_index >= element_input_size(ti) THEN ti.insert_index
            ELSE insert_index]

\* Tabs::insert_index_next
insert_index_next(ti) ==
    LET insert_index == ti.insert_index + 1
    IN  [ti EXCEPT !.insert_index =
            IF insert_index >= element_input_size(ti) THEN 0 ELSE insert_index]

\* App::handle_insert for the key c, a hexadecimal digit or '.' (46): the
\* file record and the tab it leaves, and whether the digits decoded
handle_insert_key(s, ti, c) ==
    LET ib == IF c # 46
              THEN [ti.insert_vector EXCEPT ![ti.insert_index + 1] = c]
              ELSE ti.insert_vector
        got == do_flush_input(ib, element_input_size(ti), ti.element_display,
                              element_mode_base(ti.element_mode))
        h == IF got.r THEN handle_insert(s, ti.cursor_pos, got.vv) ELSE s
    IN  [s |-> h,
         tab |-> insert_index_next([ti EXCEPT !.insert_vector = ib]),
         got_input |-> got.r,
         vv |-> got.vv]

\* ------------------------------------------------------------------- flush
\* bytes [at, at + Len(bytes)) of d replaced
\* wrong variant: one byte too many is written, a zero
write_at_over(d, bytes, at) ==
    [i \in 1..Len(d) |->
        IF at < i /\ i <= at + Len(bytes) THEN bytes[i - at]
        ELSE IF i = at + Len(bytes) + 1 THEN 0 ELSE d[i]]

\* (a write past the end of the file extends it, a gap reading as zeros)
write_at(d, bytes, at) ==
    LET end == IF at + Len(bytes) > Len(d) /\ Len(bytes) > 0
               THEN at + Len(bytes) ELSE Len(d)
    IN  [i \in 1..end |->
            IF at < i /\ i <= at + Len(bytes) THEN bytes[i - at]
            ELSE IF i <= Len(d) THEN d[i] ELSE 0]

\* wrong variant: the whole region is written, whatever the file length
bsize_whole(rsize, len, at) == rsize

\* the bytes of the region that are written back
bsize(rsize, len, at) == Min(rsize, len - at)

\* wrong variant: every patch has its region read and written
region_is_new_always(prev_offset, next_offset) == TRUE

\* the test that skips a patch whose region was already written
region_is_new(prev_offset, next_offset) == prev_offset < next_offset

\* The loop of Files::write over the in-range keys ks, ascending.
\* acc: disk, scratch buffer, prev_offset, io (I/O calls made so far),
\* written (regions written), regions (the offset of each write_at, in
\* order), status "ok" | "err" | "panic".
\* failAt: the number of the I/O call that returns Err (0: none); call 1 is
\* open/metadata, then read_block and write_at of each region in turn.
RECURSIVE write_loop(_, _, _, _, _)
write_loop(acc, p, len, ks, failAt) ==
    IF ks = {} \/ acc.status # "ok" THEN acc
    ELSE LET offset == Minimum(ks)
             bytes == Run(p, offset)
             at == offset - (offset % WRITE_BLOCK)
             rsize == (((Len(bytes) - 1) \div WRITE_BLOCK) + 1) * WRITE_BLOCK
             next_offset == at + rsize
             r == read_block(acc.disk, rsize, at, len, acc.buffer, "ok")
             scratch == [Block_new(NEW_BLOCK_SIZE) EXCEPT
                            !.buffer = r.buffer, !.offset = at]
             a == do_apply_patch(scratch, p)
             rest == ks \ {offset}
         IN  IF ~region_is_new(acc.prev_offset, next_offset)
                 THEN write_loop(acc, p, len, rest, failAt)
             ELSE IF failAt = acc.io + 1
                 THEN [acc EXCEPT !.status = "err"]
             ELSE IF r.status = "panic" \/ a.status = "panic"
                 THEN [acc EXCEPT !.status = "panic"]
             ELSE IF failAt = acc.io + 2
                 THEN [acc EXCEPT !.status = "err"]
             ELSE write_loop(
                     [acc EXCEPT !.disk =
                                     write_at(acc.disk,
                                              slice(a.buffer, 0,
                                                    bsize(rsize, len, at)), at),
                                 !.regions = Append(acc.regions, at),
                                 !.buffer = a.buffer,
                                 !.prev_offset = next_offset,
                                 !.io = acc.io + 2,
                                 !.written = acc.written + 1],
                     p, len, rest, failAt)

\* wrong variant: the overlay is never cleared
write_keep(s, failAt) ==
    LET len == Len(s.disk)
        acc0 == [disk |-> s.disk, buffer |-> <<>>, prev_offset |-> 0, io |-> 1,
                 written |-> 0, regions |-> <<>>, status |-> "ok"]
        ks == {k \in Keys(s.patch) : 0 <= k /\ k < s.size}
        acc == IF failAt = 1 THEN [acc0 EXCEPT !.status = "err"]
               ELSE write_loop(acc0, s.patch, len, ks, failAt)
    IN  [s |-> [s EXCEPT !.disk = acc.disk,
                         !.fault = (acc.status = "panic")],
         status |-> acc.status,
         written |-> acc.written,
         regions |-> acc.regions,
         io |-> acc.io]

\* wrong variant: the overlay is cleared whatever the result
write_clear(s, failAt) ==
    LET len == Len(s.disk)
        acc0 == [disk |-> s.disk, buffer |-> <<>>, prev_offset |-> 0, io |-> 1,
                 written |-> 0, regions |-> <<>>, status |-> "ok"]
        ks == {k \in Keys(s.patch) : 0 <= k /\ k < s.size}
        acc == IF failAt = 1 THEN [acc0 EXCEPT !.status = "err"]
               ELSE write_loop(acc0, s.patch, len, ks, failAt)
    IN  [s |-> [s EXCEPT !.disk = acc.disk,
                         !.patch = {},
                         !.fault = (acc.status = "panic")],
         status |-> acc.status,
         written |-> acc.written,
         regions |-> acc.regions,
         io |-> acc.io]

\* wrong variant: a flush that succeeds empties the logs with the overlay
write_forget(s, failAt) ==
    LET len == Len(s.disk)
        acc0 == [disk |-> s.disk, buffer |-> <<>>, prev_offset |-> 0, io |-> 1,
                 written |-> 0, regions |-> <<>>, status |-> "ok"]
        ks == {k \in Keys(s.patch) : 0 <= k /\ k < s.size}
        acc == IF failAt = 1 THEN [acc0 EXCEPT !.status = "err"]
               ELSE write_loop(acc0, s.patch, len, ks, failAt)
    IN  [s |-> [s EXCEPT !.disk = acc.disk,
                         !.patch = IF acc.status = "ok" THEN {} ELSE s.patch,
                         !.undo = IF acc.status = "ok" THEN <<>> ELSE s.undo,
                         !.redo = IF acc.status = "ok" THEN <<>> ELSE s.redo,
                         !.fault = (acc.status = "panic")],
         status |-> acc.status,
         written |-> acc.written,
         regions |-> acc.regions,
         io |-> acc.io]

\* Files::write: the state it leaves, with its result
write(s, failAt) ==
    LET len == Len(s.disk)
        acc0 == [disk |-> s.disk, buffer |-> <<>>, prev_offset |-> 0, io |-> 1,
                 written |-> 0, regions |-> <<>>, status |-> "ok"]
        ks == {k \in Keys(s.patch) : 0 <= k /\ k < s.size}
        acc == IF failAt = 1 THEN [acc0 EXCEPT !.status = "err"]
               ELSE write_loop(acc0, s.patch, len, ks, failAt)
    IN  [s |-> [s EXCEPT !.disk = acc.disk,
                         !.patch = IF acc.status = "ok" THEN {} ELSE s.patch,
                         !.fault = (acc.status = "panic")],
         status |-> acc.status,
         written |-> acc.written,
         regions |-> acc.regions,
         io |-> acc.io]

\* the I/O calls a flush of s can make: one to open, two per patch at most
FlushIO(s) == 0..(1 + 2 * Cardinality(Keys(s.patch)))

\* --------------------------------------------------------- window commands
set_block_size(s, n) ==
    IF n > 0 THEN [s EXCEPT !.block.size = n] ELSE s

set_block_offset(s, o) == [s EXCEPT !.block.offset = o]

on_end(s) == [s EXCEPT !.block.offset = s.size]

on_home(s) == [s EXCEPT !.block.offset = 0]

\* ------------------------------------------------------------------ search
\* TwoWaySearcher::search_in: the first index at which pat occurs in buf
Occurs(buf, pat, i) ==
    /\ i + Len(pat) <= Len(buf)
    /\ \A j \in 1..Len(pat) : buf[i + j] = pat[j]

\* wrong variant: the last occurrence, not the first
search_in_last(buf, pat) ==
    LET found == {i \in 0..Len(buf) : Occurs(buf, pat, i)}
    IN  IF found = {} THEN -1 ELSE CHOOSE i \in found : \A j \in found : j <= i

search_in(buf, pat) ==
    LET found == {i \in 0..Len(buf) : Occurs(buf, pat, i)}
    IN  IF found = {} THEN -1 ELSE Minimum(found)

\* wrong variant: after a match the scan goes on behind the match
scan_next_after_match(offset, csize, m, patlen) ==
    IF m >= 0 THEN offset + m + patlen ELSE offset + csize

\* `offset += block.size`, whatever search_in found (m) in the chunk
scan_next(offset, csize, m, patlen) == offset + csize

\* The chunk loop of App::handle_search from `offset` on: acc.scanned are the
\* offsets of the chunks read, one per iteration.
\* failAt: the number of the read_block that returns Err (0: none).
RECURSIVE search_loop(_, _, _, _, _)
search_loop(acc, d, pat, offset, failAt) ==
    LET len == Len(d)
        csize == NEW_BLOCK_SIZE
        r == read_block(d, csize + Len(pat) - 1, offset, len, acc.buffer, "ok")
        m == search_in(r.buffer, pat)
    IN  IF ~(offset < len) \/ acc.status # "ok" THEN acc
        ELSE IF failAt = acc.io + 1 THEN [acc EXCEPT !.status = "err"]
        ELSE IF r.status = "panic" THEN [acc EXCEPT !.status = "panic"]
        ELSE search_loop(
                [acc EXCEPT !.buffer = r.buffer,
                            !.io = acc.io + 1,
                            !.scanned = Append(acc.scanned, offset),
                            !.hits = IF m >= 0 THEN Append(acc.hits, offset + m)
                                     ELSE acc.hits],
                d, pat, scan_next(offset, csize, m, Len(pat)), failAt)

\* wrong variant: the search sees the file through the pending patches
handle_search_overlay(s, pat, failAt) ==
    LET seen == [i \in 1..Len(s.disk) |->
                    LET c == {e \in s.patch :
                                 e[1] < i /\ i <= e[1] + Len(e[2])}
                        e == CHOOSE e \in c : \A x \in c : x[1] <= e[1]
                    IN  IF c = {} THEN s.disk[i] ELSE e[2][i - e[1]]]
        acc0 == [buffer |-> <<>>, io |-> 0, hits |-> <<>>, scanned |-> <<>>,
                 status |-> "ok"]
        acc == IF failAt = -1 THEN [acc0 EXCEPT !.status = "err"]
               ELSE search_loop(acc0, seen, pat, 0, failAt)
        group == [Hits_new(pat) EXCEPT !.hits = acc.hits]
    IN  [s |-> IF acc.status = "ok"
                   THEN [s EXCEPT !.hhits.hits = Append(s.hhits.hits, group)]
               ELSE [s EXCEPT !.fault = (acc.status = "panic")],
         status |-> acc.status,
         found |-> Len(acc.hits),
         scanned |-> acc.scanned]

\* wrong variant: a repeated pattern replaces its earlier group
handle_search_dedupe(s, pat, failAt) ==
    LET acc0 == [buffer |-> <<>>, io |-> 0, hits |-> <<>>, scanned |-> <<>>,
                 status |-> "ok"]
        acc == IF failAt = -1 THEN [acc0 EXCEPT !.status = "err"]
               ELSE search_loop(acc0, s.disk, pat, 0, failAt)
        group == [Hits_new(pat) EXCEPT !.hits = acc.hits]
        old == {i \in 1..Len(s.hhits.hits) : s.hhits.hits[i].flag = pat}
    IN  [s |-> IF acc.status = "ok"
                   THEN IF old = {}
                        THEN [s EXCEPT !.hhits.hits = Append(s.hhits.hits, group)]
                        ELSE [s EXCEPT !.hhits.hits[Minimum(old)] = group]
               ELSE [s EXCEPT !.fault = (acc.status = "panic")],
         status |-> acc.status,
         found |-> Len(acc.hits),
         scanned |-> acc.scanned]

\* wrong variant: the hits found before a failed read are kept as a group
handle_search_partial(s, pat, failAt) ==
    LET acc0 == [buffer |-> <<>>, io |-> 0, hits |-> <<>>, scanned |-> <<>>,
                 status |-> "ok"]
        acc == IF failAt = -1 THEN [acc0 EXCEPT !.status = "err"]
               ELSE search_loop(acc0, s.disk, pat, 0, failAt)
        group == [Hits_new(pat) EXCEPT !.hits = acc.hits]
    IN  [s |-> IF acc.status # "panic"
                   THEN [s EXCEPT !.hhits.hits = Append(s.hhits.hits, group)]
               ELSE [s EXCEPT !.fault = TRUE],
         status |-> acc.status,
         found |-> Len(acc.hits),
         scanned |-> acc.scanned]

\* App::handle_search.  failAt = -1: File::open or fs::metadata returns Err.
handle_search(s, pat, failAt) ==
    LET acc0 == [buffer |-> <<>>, io |-> 0, hits |-> <<>>, scanned |-> <<>>,
                 status |-> "ok"]
        acc == IF failAt = -1 THEN [acc0 EXCEPT !.status = "err"]
               ELSE search_loop(acc0, s.disk, pat, 0, failAt)
        group == [Hits_new(pat) EXCEPT !.hits = acc.hits]
    IN  [s |-> IF acc.status = "ok"
                   THEN [s EXCEPT !.hhits.hits = Append(s.hhits.hits, group)]
               ELSE [s EXCEPT !.fault = (acc.status = "panic")],
         status |-> acc.status,
         found |-> Len(acc.hits),
         scanned |-> acc.scanned]

\* the reads a search of s can make: one per chunk
SearchIO(s) == -1..((Len(s.disk) + NEW_BLOCK_SIZE - 1) \div NEW_BLOCK_SIZE)

\* Vec indexing v[i], 0-based, as the state it leaves: a panic when out of range
InRange(v, i) == i < Len(v)

\* App::next_hit; ctrl: modifier = KeyModifiers::CONTROL
next_hit(s, ctrl) ==
    LET hh == s.hhits
    IN  IF ~ctrl
        THEN IF ~InRange(hh.hits, hh.selected) THEN [s EXCEPT !.fault = TRUE]
             ELSE LET hits == hh.hits[hh.selected + 1]
                      sel == (hits.selected + 1) % Len(hits.hits)
                  IN  IF hits.hits = <<>> THEN s
                      ELSE [s EXCEPT !.hhits.hits[hh.selected + 1].selected = sel,
                                     !.block.offset = hits.hits[sel + 1]]
        ELSE IF hh.hits = <<>> THEN s
        ELSE LET gsel == (hh.selected + 1) % Len(hh.hits)
                 hits == hh.hits[gsel + 1]
             IN  IF hits.hits = <<>> THEN [s EXCEPT !.hhits.selected = gsel]
                 ELSE [s EXCEPT !.hhits.selected = gsel,
                                !.block.offset = hits.hits[hits.selected + 1]]

\* a variant of prev_hit that stops at the first hit and the first group
prev_hit_clamp(s, ctrl) ==
    LET hh == s.hhits
    IN  IF ~ctrl
        THEN IF ~InRange(hh.hits, hh.selected) THEN [s EXCEPT !.fault = TRUE]
             ELSE LET hits == hh.hits[hh.selected + 1]
                      sel == IF hits.selected > 0 THEN hits.selected - 1 ELSE 0
                  IN  IF hits.hits = <<>> THEN s
                      ELSE [s EXCEPT !.hhits.hits[hh.selected + 1].selected = sel,
                                     !.block.offset = hits.hits[sel + 1]]
        ELSE IF hh.hits = <<>> THEN s
        ELSE LET gsel == IF hh.selected > 0 THEN hh.selected - 1 ELSE 0
                 hits == hh.hits[gsel + 1]
             IN  IF hits.hits = <<>> THEN [s EXCEPT !.hhits.selected = gsel]
                 ELSE [s EXCEPT !.hhits.selected = gsel,
                                !.block.offset = hits.hits[hits.selected + 1]]

\* App::prev_hit
prev_hit(s, ctrl) ==
    LET hh == s.hhits
    IN  IF ~ctrl
        THEN IF ~InRange(hh.hits, hh.selected) THEN [s EXCEPT !.fault = TRUE]
             ELSE LET hits == hh.hits[hh.selected + 1]
                      sel == IF hits.selected > 0 THEN hits.selected - 1
                             ELSE Len(hits.hits) - 1
                  IN  IF hits.hits = <<>> THEN s
                      ELSE [s EXCEPT !.hhits.hits[hh.selected + 1].selected = sel,
                                     !.block.offset = hits.hits[sel + 1]]
        ELSE IF hh.hits = <<>> THEN s
        ELSE LET gsel == IF hh.selected > 0 THEN hh.selected - 1
                         ELSE Len(hh.hits) - 1
                 hits == hh.hits[gsel + 1]
             IN  IF hits.hits = <<>> THEN [s EXCEPT !.hhits.selected = gsel]
                 ELSE [s EXCEPT !.hhits.selected = gsel,
                                !.block.offset = hits.hits[hits.selected + 1]]

\* ------------------------------------------------------------ the program
InitDisk == [i \in 1..FileLen |-> i]

Offsets == 0..FileLen
Sizes == 0..MaxSize
Positions == 0..(MaxSize - 1)
Patterns == {<<2, 3>>}

\* The run the n-th committed edit writes.  The engine copies bytes and never
\* branches on their values, so every edit gets bytes of its own, distinct
\* from the file's (InitDisk) and from FILL: where a byte came from is then
\* readable in every buffer.
EditRun(n, w) == [i \in 1..w |-> 100 + 10 * n + i]

\* A panic ends the process: its memory is gone and the disk stays as written.
Crashed(d) == [File_new(d) EXCEPT !.fault = TRUE]

Set(t) ==
    LET u == IF t.fault THEN Crashed(t.disk) ELSE t
    IN  /\ disk' = u.disk
        /\ size' = u.size
        /\ block' = u.block
        /\ patch' = u.patch
        /\ undo' = u.undo
        /\ redo' = u.redo
        /\ hhits' = u.hhits
        /\ fault' = u.fault
        /\ lastread' = u.lastread

\* committed edits so far
NEdits == (Len(undo) + Len(redo)) \div 2

\* the history of the most recent edit per byte
Void == {<<-1, -1>>}

Record(e, key, vv) ==
    IF e = Void THEN e
    ELSE {x \in e : ~(key <= x[1] /\ x[1] < key + Len(vv))}
         \cup {<<key + i - 1, vv[i]>> : i \in 1..Len(vv)}

\* run_app: files.add, then the first sync_file
Init ==
    \E t \in Sync(File_new(InitDisk)) :
        LET u == IF t.fault THEN Crashed(t.disk) ELSE t
        IN  /\ disk = u.disk
            /\ size = u.size
            /\ block = u.block
            /\ patch = u.patch
            /\ undo = u.undo
            /\ redo = u.redo
            /\ hhits = u.hhits
            /\ fault = u.fault
            /\ lastread = u.lastread
        /\ last = "init"
        /\ edited = {}
        /\ tab = Tab_new

\* no input within the tick: sync_file alone
Tick ==
    /\ ~fault
    /\ \E t \in Sync(St) : Set(t)
    /\ UNCHANGED <<last, edited, tab>>

\* a digit key in insert mode whose buffer decodes to the run vv
KeyInsert ==
    /\ ~fault
    /\ NEdits < MaxEdits
    /\ \E w \in ElementSizes, pos \in Positions :
        LET vv == EditRun(NEdits + 1, w)
            h == handle_insert(St, pos, vv)
        IN  /\ \E t \in Sync(h) : Set(t)
            /\ edited' = IF h.fault THEN Void
                         ELSE Record(edited, block.offset + pos, vv)
    /\ last' = "edit"
    /\ UNCHANGED tab

\* 'u' in insert mode
KeyUndo ==
    /\ ~fault
    /\ \E t \in Sync(do_undo(St)) : Set(t)
    /\ last' = "undo"
    /\ edited' = IF undo = <<>> THEN edited ELSE Void
    /\ UNCHANGED tab

\* 'U' in insert mode
KeyRedo ==
    /\ ~fault
    /\ \E t \in Sync(do_redo(St)) : Set(t)
    /\ last' = "redo"
    /\ edited' = IF redo = <<>> THEN edited ELSE Void
    /\ UNCHANGED tab

\* 'W': Files::write, its error printed
KeyW ==
    /\ ~fault
    /\ \E f \in FlushIO(St) :
        LET w == write(St, f)
        IN  /\ \E t \in Sync(w.s) : Set(t)
            /\ last' = CASE w.status = "ok" -> "flushOk"
                         [] w.status = "err" -> "flushErr"
                         [] OTHER -> "flushPanic"
    /\ UNCHANGED <<edited, tab>>

\* the command "offset N"
CmdOffset ==
    /\ ~fault
    /\ \E o \in Offsets : \E t \in Sync(set_block_offset(St, o)) : Set(t)
    /\ last' = "window"
    /\ UNCHANGED <<edited, tab>>

\* the command "block_size N"
CmdBlockSize ==
    /\ ~fault
    /\ \E n \in Sizes : \E t \in Sync(set_block_size(St, n)) : Set(t)
    /\ last' = "window"
    /\ UNCHANGED <<edited, tab>>

\* End outside insert mode
KeyEnd ==
    /\ ~fault
    /\ \E t \in Sync(on_end(St)) : Set(t)
    /\ last' = "window"
    /\ UNCHANGED <<edited, tab>>

\* Home outside insert mode
KeyHome ==
    /\ ~fault
    /\ \E t \in Sync(on_home(St)) : Set(t)
    /\ last' = "window"
    /\ UNCHANGED <<edited, tab>>

\* the command "search P"
CmdSearch ==
    /\ ~fault
    /\ Len(hhits.hits) < MaxGroups
    /\ \E pat \in Patterns, f \in SearchIO(St) :
        \E t \in Sync(handle_search(St, pat, f).s) : Set(t)
    /\ last' = "search"
    /\ UNCHANGED <<edited, tab>>

\* 'n' and Ctrl+'n' outside insert mode
KeyNextHit ==
    /\ ~fault
    /\ \E ctrl \in BOOLEAN : \E t \in Sync(next_hit(St, ctrl)) : Set(t)
    /\ last' = "hit"
    /\ UNCHANGED <<edited, tab>>

\* 'N' and Ctrl+'N' outside insert mode
KeyPrevHit ==
    /\ ~fault
    /\ \E ctrl \in BOOLEAN : \E t \in Sync(prev_hit(St, ctrl)) : Set(t)
    /\ last' = "hit"
    /\ UNCHANGED <<edited, tab>>

Next ==
    \/ Tick
    \/ KeyInsert
    \/ KeyUndo
    \/ KeyRedo
    \/ KeyW
    \/ CmdOffset
    \/ CmdBlockSize
    \/ KeyEnd
    \/ KeyHome

Spec == Init /\ [][Next]_vars

\* the same program with the search command and hit navigation
NextAll ==
    \/ Next
    \/ CmdSearch
    \/ KeyNextHit
    \/ KeyPrevHit

SpecAll == Init /\ [][NextAll]_vars

\* ------------------------------------------------- the load, on its own
\* The load is reached with any window and any file: the file named on the
\* command line may be empty or short, "offset N" and "block_size N" take any
\* N, and the buffer is still empty when no load has succeeded yet.
LoadIOAll == {"ok", "open", "seek", "read"}

\* buffers an earlier load of the same file can have left
PriorBuffers(d) ==
    {<<>>} \cup
    {read_block(d, sz, off, Len(d), <<>>, "ok").buffer :
        sz \in 1..MaxSize, off \in {o \in Offsets : o < Len(d)}}

InitLoad ==
    \E len \in 0..FileLen, sz \in 1..MaxSize, off \in Offsets :
        LET d == SubSeq(InitDisk, 1, len)
        IN  \E buf \in PriorBuffers(d) :
                /\ disk = d
                /\ size = 0
                /\ block = [Block_new(sz) EXCEPT !.offset = off, !.buffer = buf]
                /\ patch = {}
                /\ undo = <<>>
                /\ redo = <<>>
                /\ hhits = HHits_default
                /\ fault = FALSE
                /\ lastread = <<>>
                /\ last = "input"
                /\ edited = {}
                /\ tab = Tab_new

\* App::read_block run once on the drawn input
Load ==
    /\ last = "input"
    /\ \E io \in LoadIOAll : Set(app_read_block(St, io))
    /\ last' = "load"
    /\ UNCHANGED <<edited, tab>>

SpecLoad == InitLoad /\ [][Load]_vars

\* ============================================================== properties
\* the pending patches of p whose run covers the file offset o
Covering(p, o) == {e \in p : e[1] <= o /\ o < e[1] + Len(e[2])}

\* the byte the run of entry e holds for the file offset o
ByteAt(e, o) == e[2][o - e[1] + 1]

\* the entry of the non-empty set c with the highest key
Highest(c) == CHOOSE e \in c : \A x \in c : x[1] <= e[1]

\* a load into a fresh buffer of the window [off, off + sz)
FreshLoad(d, off, sz) == read_block(d, sz, off, Len(d), <<>>, "ok").buffer

\* C1: after a successful flush, a fresh load of any window that covers an
\* edited byte below the file length yields, for that byte, the value the
\* most recent edit gave it.
RoundTrip ==
    (last = "flushOk" /\ ~fault /\ edited # Void) =>
        \A x \in edited :
            x[1] < Len(disk) =>
                \A off \in 0..x[1], sz \in 1..MaxSize :
                    x[1] < off + sz =>
                        FreshLoad(disk, off, sz)[x[1] - off + 1] = x[2]

\* C3: after every sync, source holds the bytes last read from disk and
\* working is source with every pending patch that intersects the window
\* applied, patches keyed below the window offset included.
WindowContent ==
    ~fault =>
        /\ block.source = lastread
        /\ \A i \in 1..Min(Len(block.buffer), Len(block.source)) :
            LET c == Covering(patch, block.offset + i - 1)
            IN  block.buffer[i] = IF c = {} THEN block.source[i]
                                  ELSE ByteAt(Highest(c), block.offset + i - 1)

\* C4: a load of a window of size >= 1 that reaches past the end of the file
\* succeeds and leaves exactly size bytes: the bytes read from disk first,
\* then 0xFF from local index max(0, file_len - offset) on.  Stated on the
\* drawn input, for the load that is about to run.
LoadPads ==
    (last = "input" /\ block.offset + block.size > Len(disk)) =>
        LET r == read_block(disk, block.size, block.offset, Len(disk),
                            block.buffer, "ok")
            nread == IF Len(disk) > block.offset
                     THEN Len(disk) - block.offset ELSE 0
        IN  /\ r.status = "ok"
            /\ Len(r.buffer) = block.size
            /\ \A i \in 1..Len(r.buffer) :
                r.buffer[i] = IF i <= nread THEN disk[block.offset + i]
                              ELSE FILL

\* C5: once a load has succeeded, working and source have exactly the
\* window's size after every sync.
WindowLength ==
    (~fault /\ block.prev_size > 0) =>
        /\ Len(block.buffer) = block.size
        /\ Len(block.source) = block.size

\* the overlay application that follows a handler within the same tick
Applied(s) == sync_file(s, "ok")

\* C6: right after a committed edit, undo followed by redo, each followed by
\* overlay application, restores working, the overlay entry at the edit
\* offset and both logs to what they are after the edit.
UndoRedoRestores ==
    (last = "edit" /\ ~fault) =>
        LET key == undo[Len(undo)].offset
            t == Applied(do_redo(Applied(do_undo(St))))
        IN  /\ ~t.fault
            /\ t.block.buffer = block.buffer
            /\ key \in Keys(t.patch) /\ key \in Keys(patch)
            /\ Run(t.patch, key) = Run(patch, key)
            /\ t.undo = undo
            /\ t.redo = redo

\* a second committed edit whose undo changes working
UndoRedoRestoresWitness ==
    /\ last = "edit" /\ ~fault
    /\ Len(undo) = 4
    /\ Applied(do_undo(St)).block.buffer # block.buffer

\* the bytes of the file seen through the overlay: for each offset the byte
\* of the highest-keyed pending run covering it, else the byte on disk
Effective(s) ==
    [o \in 0..(Len(s.disk) + MaxSize) |->
        LET c == Covering(s.patch, o)
        IN  IF c # {} THEN ByteAt(Highest(c), o)
            ELSE IF o < Len(s.disk) THEN s.disk[o + 1] ELSE FILL]

RedoUndo(s) == Applied(do_undo(Applied(do_redo(s))))

\* C7 as stated: in every state, redo followed by undo leaves the overlay's
\* effective bytes, working and both logs as they were.
RedoUndoNoop ==
    ~fault =>
        LET t == RedoUndo(St)
        IN  /\ ~t.fault
            /\ Effective(t) = Effective(St)
            /\ t.block.buffer = block.buffer
            /\ t.undo = undo
            /\ t.redo = redo

\* C8: undo on an empty undo log and redo on an empty redo log change
\* nothing (working, overlay, logs) and raise no error.
EmptyLogNoop ==
    ~fault =>
        /\ undo = <<>> => Applied(do_undo(St)) = St
        /\ redo = <<>> => Applied(do_redo(St)) = St

\* undo was pressed with nothing to undo
EmptyLogNoopWitness ==
    /\ last = "undo" /\ ~fault
    /\ undo = <<>> /\ redo = <<>>

\* the state an undo leaves, or no pair to redo and none to undo
RedoUndoFresh ==
    \/ redo = <<>> /\ undo = <<>>
    \/ /\ redo # <<>>
       /\ <<redo[Len(redo)].offset, redo[Len(redo)].data>> \in patch

\* C7, amended: redo followed by undo, each followed by overlay application,
\* leaves the overlay, its effective bytes, working and both logs as they
\* were when both logs are empty, or when the redo log is not empty and the
\* overlay entry at the offset of its top entry still holds that entry's
\* bytes.
RedoUndoNoopWhenFresh ==
    (~fault /\ RedoUndoFresh) =>
        LET t == RedoUndo(St)
        IN  /\ ~t.fault
            /\ t.patch = patch
            /\ Effective(t) = Effective(St)
            /\ t.block.buffer = block.buffer
            /\ t.undo = undo
            /\ t.redo = redo

\* an undone pair whose redo changes working
RedoUndoNoopWitness ==
    /\ ~fault /\ redo # <<>> /\ RedoUndoFresh
    /\ Applied(do_redo(St)).block.buffer # block.buffer

\* C2: a step that is not a flush leaves every byte of the file on disk, and
\* its length, as they were; so with no flush the file is as at the start.
DiskOnlyByFlush == [][disk' = disk \/ KeyW]_vars

\* edits, an undo, a search and hit navigation, and the file still untouched
DiskOnlyByFlushWitness ==
    /\ ~fault /\ last = "hit"
    /\ patch # {} /\ redo # <<>> /\ undo # <<>> /\ hhits.hits # <<>>
    /\ disk = InitDisk

RegionOf(k) == k - (k % WRITE_BLOCK)

Regions == {RegionOf(k) : k \in {k \in Keys(patch) : k < size}}

FirstRegions(n) == {r \in Regions : Cardinality({q \in Regions : q < r}) < n}

\* regions fully written when I/O call f fails: call 1 opens, calls 2j and
\* 2j + 1 read and write the j-th region
WrittenBefore(f) == IF f < 2 THEN 0 ELSE (f - 2) \div 2

\* C10: a flush that fails on an I/O step returns the error and leaves the
\* overlay, both logs and the window as they were; the regions written before
\* the failure hold their patched bytes, the rest of the file is untouched.
FlushFailureKeepsState ==
    ~fault =>
        \A f \in FlushIO(St) :
            LET w == write(St, f)
            IN  /\ f = 1 => w.status = "err"
                /\ w.status = "err" =>
                    /\ ~w.s.fault
                    /\ w.s.patch = patch
                    /\ w.s.undo = undo
                    /\ w.s.redo = redo
                    /\ w.s.block = block
                    /\ Len(w.s.disk) = Len(disk)
                    /\ \A o \in 0..(Len(disk) - 1) :
                        w.s.disk[o + 1] =
                            IF /\ RegionOf(o) \in FirstRegions(WrittenBefore(f))
                               /\ Covering(patch, o) # {}
                            THEN ByteAt(Highest(Covering(patch, o)), o)
                            ELSE disk[o + 1]

\* a failed flush that had already written a pending run
FlushFailureKeepsStateWitness ==
    /\ last = "flushErr" /\ ~fault
    /\ \E e \in patch : e[1] < Len(disk) /\ disk[e[1] + 1] = e[2][1]

\* the state with the pending patches keyed at or beyond the cached length
\* taken out of the overlay
InFile(s) == [s EXCEPT !.patch = {e \in s.patch : e[1] < s.size}]

\* C11: a flush never extends the file.  Whatever the overlay and wherever
\* its I/O fails, the file keeps its length (so no byte at or beyond the file
\* length is written, and a run reaching past end-of-file is cut there), and
\* the patches keyed at or beyond the cached length have no part in what is
\* written: the file ends up as it does with those patches out of the overlay.
FlushNeverExtends ==
    ~fault =>
        \A f \in FlushIO(St) :
            LET w == write(St, f)
            IN  /\ Len(w.s.disk) = Len(disk)
                /\ w.status # "panic" => w.s.disk = write(InFile(St), f).s.disk

\* a flush returned Ok after an edit at an offset at or beyond the file length
FlushNeverExtendsWitness ==
    /\ last = "flushOk" /\ ~fault
    /\ edited # Void
    /\ \E x \in edited : x[1] >= Len(disk)
    /\ disk # InitDisk

\* C12: a flush changes no byte of the file that no pending run covers; and
\* the flush of a single pending run keyed below the file length, when it
\* returns Ok, leaves the run's bytes at the run's offsets, every other byte
\* of the file as it was, and the overlay empty.
FlushFrame ==
    [][/\ Len(disk') = Len(disk)
       /\ \A o \in 0..(Len(disk) - 1) :
            disk'[o + 1] # disk[o + 1] => Covering(patch, o) # {}
       /\ (last' = "flushOk" /\ Cardinality(patch) = 1) =>
            \A e \in patch :
                e[1] < Len(disk) =>
                    /\ patch' = {}
                    /\ \A o \in 0..(Len(disk) - 1) :
                        disk'[o + 1] =
                            IF e[1] <= o /\ o < e[1] + Len(e[2])
                            THEN ByteAt(e, o) ELSE disk[o + 1]]_vars

\* one edit of the file as it was at the start, flushed
FlushFrameWitness ==
    /\ last = "flushOk" /\ ~fault
    /\ Len(undo) = 2 /\ redo = <<>>
    /\ patch = {}
    /\ \E o \in 0..(Len(disk) - 1) :
        /\ disk[o + 1] = undo[2].data[1] /\ undo[2].offset = o
        /\ \A q \in 0..(Len(disk) - 1) :
            (q < o \/ q >= o + Len(undo[2].data)) => disk[q + 1] = InitDisk[q + 1]

\* the strictly ascending sequence of the elements of a finite set of numbers
Ascending(S) ==
    CHOOSE q \in [1..Cardinality(S) -> S] :
        \A i, j \in 1..Cardinality(S) : i < j => q[i] < q[j]

\* C13: a flush that completes writes each aligned region holding a pending
\* in-range key exactly once, in ascending order, and nothing else: its
\* writes are the ascending list of those regions, and it makes one read per
\* write (a patch in a region already written costs no read and no write).
FlushRegionsOnce ==
    ~fault =>
        LET w == write(St, 0)
        IN  w.status = "ok" =>
                /\ w.regions = Ascending(Regions)
                /\ w.written = Cardinality(Regions)
                /\ w.io = 1 + 2 * Cardinality(Regions)

\* two pending in-range patches in one region, and a flush of them that
\* completes
FlushRegionsOnceWitness ==
    /\ ~fault
    /\ Cardinality({k \in Keys(patch) : k < size}) = 2
    /\ Cardinality(Regions) = 1
    /\ write(St, 0).status = "ok"

\* ------------------------------------------------- the search, on its own
\* The search is run on any file and any pattern.  A pattern is the bytes of
\* a Rust String, which never hold 0xFF, the fill value.
SearchBytes == {1, 2}

SearchFiles ==
    UNION {[1..n -> SearchBytes] : n \in 0..SearchLen}

SearchPatterns == {<<1>>, <<1, 2>>, <<2, 2>>, <<1, 1, 2>>}

\* run_app on the file d: files.add, then the first sync_file
InitSearch ==
    \E d \in SearchFiles :
        \E t \in Sync(File_new(d)) :
            LET u == IF t.fault THEN Crashed(t.disk) ELSE t
            IN  /\ disk = u.disk
                /\ size = u.size
                /\ block = u.block
                /\ patch = u.patch
                /\ undo = u.undo
                /\ redo = u.redo
                /\ hhits = u.hhits
                /\ fault = u.fault
                /\ lastread = u.lastread
                /\ last = "init"
                /\ edited = {}
                /\ tab = Tab_new

\* the command "search P", any pattern, any I/O outcome
SearchAny ==
    /\ ~fault
    /\ Len(hhits.hits) < SearchGroups
    /\ \E pat \in SearchPatterns, f \in SearchIO(St) :
        LET r == handle_search(St, pat, f)
        IN  /\ \E t \in Sync(r.s) : Set(t)
            /\ last' = IF r.status = "ok" THEN "search" ELSE "searchErr"
    /\ UNCHANGED <<edited, tab>>

SpecSearch == InitSearch /\ [][SearchAny]_vars

\* the pattern pat occurs in the file d at offset k
OccursInFile(d, pat, k) ==
    /\ k + Len(pat) <= Len(d)
    /\ \A j \in 1..Len(pat) : d[k + j] = pat[j]

\* per chunk of the file, the smallest offset in the chunk at which pat occurs
FirstPerChunk(d, pat) ==
    LET chunks == {c \in 0..Len(d) : c * NEW_BLOCK_SIZE < Len(d)}
        occ(c) == {k \in (c * NEW_BLOCK_SIZE)..((c + 1) * NEW_BLOCK_SIZE - 1) :
                      OccursInFile(d, pat, k)}
    IN  {Minimum(occ(c)) : c \in {c \in chunks : occ(c) # {}}}

\* C14: the hit list of a search is, chunk after chunk, the smallest offset
\* of the chunk at which the pattern occurs in the file, if there is one.
SearchFirstPerChunk ==
    ~fault =>
        \A i \in 1..Len(hhits.hits) :
            hhits.hits[i].hits =
                Ascending(FirstPerChunk(disk, hhits.hits[i].flag))

\* a reported match that straddles a chunk boundary, and a match that is
\* not reported because an earlier one starts in the same chunk
SearchFirstPerChunkWitness ==
    /\ last = "search" /\ ~fault
    /\ \E i \in 1..Len(hhits.hits) :
        LET g == hhits.hits[i]
            reported == {g.hits[j] : j \in 1..Len(g.hits)}
        IN  /\ \E k \in reported :
                (k % NEW_BLOCK_SIZE) + Len(g.flag) > NEW_BLOCK_SIZE
            /\ \E k \in 0..Len(disk) :
                OccursInFile(disk, g.flag, k) /\ k \notin reported

\* C15: a search that succeeds appends exactly one group at the end of the
\* collection, whatever the groups already there: the new group carries the
\* pattern, has its hits in strictly ascending order and selected = 0, the
\* count returned is the number of its hits, and the earlier groups and the
\* selected-group index are as before.
SearchAppendsGroup ==
    ~fault =>
        \A pat \in SearchPatterns, f \in SearchIO(St) :
            LET r == handle_search(St, pat, f)
                n == Len(hhits.hits)
                new == r.s.hhits.hits[n + 1]
            IN  r.status = "ok" =>
                    /\ Len(r.s.hhits.hits) = n + 1
                    /\ SubSeq(r.s.hhits.hits, 1, n) = hhits.hits
                    /\ r.s.hhits.selected = hhits.selected
                    /\ new.flag = pat
                    /\ new.selected = 0
                    /\ \A i, j \in 1..Len(new.hits) :
                        i < j => new.hits[i] < new.hits[j]
                    /\ r.found = Len(new.hits)

\* the same pattern searched twice, with no hit
SearchAppendsGroupWitness ==
    /\ last = "search" /\ ~fault
    /\ Len(hhits.hits) = 2
    /\ hhits.hits[1].flag = hhits.hits[2].flag
    /\ hhits.hits[2].hits = <<>>

\* C17: a search that fails with an I/O error, at the open or at the read of
\* any chunk, leaves the file record as it was: no group is appended, and
\* the groups, the selected-group index, the window, the overlay and the
\* logs are unchanged.
SearchFailureKeepsState ==
    ~fault =>
        \A pat \in Patterns, f \in SearchIO(St) :
            LET r == handle_search(St, pat, f)
            IN  /\ (f = -1 \/ (f >= 1 /\ (f - 1) * NEW_BLOCK_SIZE < Len(disk)))
                    => r.status = "err"
                /\ r.status = "err" => r.s = St

\* a search was run on an edited file and there is no group: it failed
SearchFailureKeepsStateWitness ==
    /\ last = "search" /\ ~fault
    /\ hhits.hits = <<>>
    /\ patch # {} /\ undo # <<>> /\ redo # <<>>

\* C16: a search reads the disk only.  In every state its result, and the
\* hits of the group it appends, are those of the same search on a record
\* newly made for the same bytes on disk, with no overlay, no window loaded
\* and empty logs; so two states with the same bytes on disk give the same
\* hit list.  And the search leaves the overlay, the window, both logs and
\* the disk as they are.
SearchReadsDiskOnly ==
    ~fault =>
        \A pat \in Patterns, f \in SearchIO(St) :
            LET r == handle_search(St, pat, f)
                c == handle_search(File_new(disk), pat, f)
                n == Len(hhits.hits)
            IN  /\ r.status = c.status
                /\ r.found = c.found
                /\ r.status = "ok" =>
                    r.s.hhits.hits[n + 1] = c.s.hhits.hits[1]
                /\ r.s.patch = patch
                /\ r.s.block = block
                /\ r.s.undo = undo
                /\ r.s.redo = redo
                /\ r.s.disk = disk

\* a search found the pattern on disk where a pending patch overlays it
SearchReadsDiskOnlyWitness ==
    /\ last = "search" /\ ~fault
    /\ undo # <<>>
    /\ \E i \in 1..Len(hhits.hits) :
        \E j \in 1..Len(hhits.hits[i].hits) :
            Covering(patch, hhits.hits[i].hits[j]) # {}

\* --------------------------------------------------- the sync, on its own
\* sync_file is reached after any handler.  The states it starts from are
\* drawn as the program makes them: the first load, a window chosen and
\* loaded, at most one committed edit, then window commands whose load has
\* not succeeded yet.
Loaded(o, z) ==
    sync_file(set_block_size(set_block_offset(
                  sync_file(File_new(InitDisk), "ok"), o), z), "ok")

Edited(s, w, pos) ==
    IF w = 0 THEN s ELSE sync_file(handle_insert(s, pos, EditRun(1, w)), "ok")

InitSync ==
    \E o \in Offsets, z \in 1..MaxSize, w \in {0} \cup ElementSizes,
       pos \in Positions, o2 \in Offsets, z2 \in 1..MaxSize :
        LET s == Edited(Loaded(o, z), w, pos)
            u == set_block_size(set_block_offset(s, o2), z2)
        IN  /\ ~s.fault
            /\ w = 0 => pos = 0
            /\ disk = u.disk
            /\ size = u.size
            /\ block = u.block
            /\ patch = u.patch
            /\ undo = u.undo
            /\ redo = u.redo
            /\ hhits = u.hhits
            /\ fault = u.fault
            /\ lastread = u.lastread
            /\ last = "input"
            /\ edited = {}
            /\ tab = Tab_new

\* App::sync_file run once, with any outcome of the I/O of its load
SyncStep ==
    /\ last = "input"
    /\ \E io \in LoadIOAll :
        /\ Set(sync_file(St, io))
        /\ last' = IF ~need_block(St) THEN "cached"
                   ELSE IF io = "ok" THEN "reload" ELSE "reloadErr"
    /\ UNCHANGED <<edited, tab>>

SpecSync == InitSync /\ [][SyncStep]_vars

\* the window asked for is not the window last loaded
Moved ==
    block.offset # block.prev_offset \/ block.size # block.prev_size

\* C18: when the load of a sync fails with an I/O error (open, seek or
\* read), working, source, prev_offset and prev_size are what they were
\* before the sync, the overlay application of that sync included, and
\* there is no fault.  Stated on the drawn state, for the sync about to run.
FailedLoadKeepsWindow ==
    (last = "input" /\ Moved) =>
        \A io \in {"open", "seek", "read"} :
            LET t == sync_file(St, io)
            IN  need_block(t) =>
                    /\ ~t.fault
                    /\ t.block.buffer = block.buffer
                    /\ t.block.source = block.source
                    /\ t.block.prev_offset = block.prev_offset
                    /\ t.block.prev_size = block.prev_size

\* C19: a sync reads the disk exactly when the window asked for differs from
\* the window last loaded.  With the same window the sync is the same
\* whatever the I/O would return and whatever is on disk, and it leaves
\* source, prev_offset and prev_size alone; with a different window the
\* outcome of the I/O decides whether the window counts as loaded.  After a
\* load that succeeds source is the bytes the load read, prev_offset and
\* prev_size are the window's offset and size; and in both cases working is
\* the overlay applied to what working was (the bytes read, after a load).
\* Stated on the drawn state, for the sync about to run.
SyncCache ==
    last = "input" =>
        LET t == sync_file(St, "ok")
            r == read_block(disk, block.size, block.offset, Len(disk),
                            block.buffer, "ok")
            start == IF Moved THEN r.buffer ELSE block.buffer
            a == do_apply_patch([block EXCEPT !.buffer = start], patch)
        IN  /\ ~Moved =>
                /\ \A io \in LoadIOAll : sync_file(St, io) = t
                /\ sync_file([St EXCEPT !.disk = <<>>], "ok").block = t.block
                /\ t.block.source = block.source
                /\ t.block.prev_offset = block.prev_offset
                /\ t.block.prev_size = block.prev_size
                /\ t.lastread = lastread
            /\ Moved =>
                LET e == sync_file(St, "open")
                IN  ~e.fault =>
                        /\ e.block.prev_offset = block.prev_offset
                        /\ e.block.prev_size = block.prev_size
                        /\ e.block.source = block.source
            /\ (Moved /\ ~t.fault) =>
                /\ t.block.source = r.buffer
                /\ t.lastread = r.buffer
                /\ t.block.prev_offset = block.offset
                /\ t.block.prev_size = block.size
                /\ block.offset < Len(disk) =>
                    t.block.source =
                        [i \in 1..block.size |->
                            IF block.offset + i <= Len(disk)
                            THEN disk[block.offset + i] ELSE FILL]
            /\ ~t.fault => t.block.buffer = a.buffer

\* a reload with a pending patch applied on the bytes read
SyncCacheWitness ==
    /\ last = "reload" /\ ~fault
    /\ patch # {}
    /\ block.source = lastread
    /\ block.buffer # block.source

\* C20: an edit never faults.  For every element width and every cursor
\* position, positions whose run would reach past the end of working
\* included, the edit either commits a run lying wholly inside the window or
\* leaves the window, the overlay and the logs as they were.
EditNeverFaults ==
    ~fault =>
        \A w \in ElementSizes, pos \in Positions :
            LET h == handle_insert(St, pos, EditRun(NEdits + 1, w))
            IN  /\ ~h.fault
                /\ \/ pos + w <= block.size /\ pos + w <= Len(block.buffer)
                   \/ h.block = block /\ h.patch = patch /\ h.undo = undo
                      /\ h.redo = redo

\* -------------------------------------------- the insert keystroke, on its own
\* A keystroke in insert mode is reached with any element display and mode
\* (commands "byte hex", "word dec", ...), any digits typed so far, any insert
\* index (a change of mode leaves it where it was) and any cursor position.
\* The digits already in the buffer are drawn from Slots, a prefix of the
\* element's slots being typed and the rest still NUL; the key pressed is
\* drawn from Typed, where 46 is '.', the key that leaves its slot alone.
Slots(mode) ==
    CASE mode = "Hex" -> {48, 97, 70}
      [] mode = "Dec" -> {48, 53, 54}
      [] mode = "Oct" -> {48, 51, 55}
      [] mode = "Bin" -> {48, 49}

Typed(mode) ==
    Slots(mode) \cup
        CASE mode = "Hex" -> {55, 46}
          [] mode = "Dec" -> {50, 97, 46}
          [] mode = "Oct" -> {52, 56, 46}
          [] mode = "Bin" -> {50, 46}

\* the tabs drawn: the largest elements are left out by MaxDigits
Tabs ==
    {ti \in [element_display : ElementSizes, element_mode : ElementModes,
             insert_mode : {TRUE}, insert_index : 0..(MaxDigits - 1),
             insert_vector : {Tab_new.insert_vector},
             cursor_pos : Positions] :
        /\ element_input_size(ti) <= MaxDigits
        /\ ti.insert_index <= element_input_size(ti)}

\* the digit buffers with the first k slots typed
TypedPrefix(mode, k) ==
    {[i \in 1..InsertSlots |-> IF i <= k THEN f[i] ELSE 0] :
        f \in [1..k -> Slots(mode)]}

InitEdit ==
    \E ti \in Tabs, prior \in {0, 1} :
        \E k \in 0..element_input_size(ti) :
            \E ib \in TypedPrefix(ti.element_mode, k) :
                LET s == Edited(Loaded(1, MaxSize), prior, 0)
                IN  /\ disk = s.disk
                    /\ size = s.size
                    /\ block = s.block
                    /\ patch = s.patch
                    /\ undo = s.undo
                    /\ redo = s.redo
                    /\ hhits = s.hhits
                    /\ fault = s.fault
                    /\ lastread = s.lastread
                    /\ last = "input"
                    /\ edited = {}
                    /\ tab = [ti EXCEPT !.insert_vector = ib]

\* a hexadecimal digit or '.' in insert mode: App::handle_insert
KeyDigit ==
    /\ last = "input"
    /\ \E c \in Typed(tab.element_mode) :
        LET h == handle_insert_key(St, tab, c)
        IN  /\ \E t \in Sync(h.s) : Set(t)
            /\ tab' = IF h.s.fault THEN Tab_new ELSE h.tab
            /\ last' = IF h.got_input THEN "commit" ELSE "nodecode"
    /\ UNCHANGED edited

SpecEdit == InitEdit /\ [][KeyDigit]_vars

\* the element's digit slots after the key c has been written
SlotsAfter(ti, c) ==
    SubSeq(handle_insert_key(St, ti, c).tab.insert_vector, 1,
           element_input_size(ti))

\* the characters that write the digit d
Glyphs(d) ==
    IF d < 10 THEN {48 + d} ELSE {97 + (d - 10), 65 + (d - 10)}

DigitOf(c) == CHOOSE d \in 0..15 : c \in Glyphs(d)

\* s is a numeral of the radix r
IsNumeral(s, r) ==
    /\ s # <<>>
    /\ \A i \in 1..Len(s) : \E d \in 0..(r - 1) : s[i] \in Glyphs(d)

\* the value of the numeral s in the radix r, most significant digit first
RECURSIVE ValueOf(_, _)
ValueOf(s, r) ==
    IF s = <<>> THEN 0
    ELSE DigitOf(s[Len(s)]) + r * ValueOf(SubSeq(s, 1, Len(s) - 1), r)

\* C21: the edit protocol.  A keystroke that commits (and does not fault)
\* pushes exactly two entries onto the undo log, first the bytes
\* working[pos..pos+n] as they were and then the bytes of the run, both with
\* offset window.offset + pos and length n; working keeps its length and
\* differs only by the run at pos; the overlay maps window.offset + pos to
\* the run, and keeps its other entries; the redo log is untouched.  The
\* decoder reports true exactly when this happened: otherwise the file
\* record is as it was.
EditProtocol ==
    last = "input" =>
        \A c \in Typed(tab.element_mode) :
            LET h == handle_insert_key(St, tab, c)
                pos == tab.cursor_pos
                n == Len(h.vv)
                key == block.offset + pos
                m == Len(undo)
            IN  ~h.s.fault =>
                    /\ h.got_input <=> h.s.undo # undo
                    /\ ~h.got_input => h.s = St
                    /\ h.got_input =>
                        /\ n = tab.element_display
                        /\ Len(h.s.undo) = m + 2
                        /\ SubSeq(h.s.undo, 1, m) = undo
                        /\ h.s.undo[m + 1] =
                            [offset |-> key,
                             data |-> SubSeq(block.buffer, pos + 1, pos + n)]
                        /\ h.s.undo[m + 2] = [offset |-> key, data |-> h.vv]
                        /\ Len(h.s.block.buffer) = Len(block.buffer)
                        /\ \A i \in 1..Len(block.buffer) :
                            h.s.block.buffer[i] =
                                IF pos < i /\ i <= pos + n THEN h.vv[i - pos]
                                ELSE block.buffer[i]
                        /\ {e \in h.s.patch : e[1] = key} = {<<key, h.vv>>}
                        /\ {e \in h.s.patch : e[1] # key} =
                            {e \in patch : e[1] # key}
                        /\ h.s.redo = redo
                        /\ h.s.disk = disk

\* a second edit was committed over a byte of the first: the pre-edit bytes
\* it logged are those of working, not those on disk
EditProtocolWitness ==
    /\ last = "commit" /\ ~fault
    /\ Len(undo) = 4
    /\ undo[3].offset = undo[1].offset
    /\ undo[3].data = undo[2].data
    /\ undo[4].data # undo[3].data

\* C22: a keystroke whose digits do not decode leaves working, the overlay
\* and both logs as they were, and still moves the insert index one slot on,
\* back to 0 at the element's digit width; a keystroke that commits moves
\* the index in the same way.
UndecodedKeystroke ==
    last = "input" =>
        \A c \in Typed(tab.element_mode) :
            LET h == handle_insert_key(St, tab, c)
                n == element_input_size(tab)
            IN  /\ ~h.got_input =>
                    /\ ~h.s.fault
                    /\ h.s.block = block
                    /\ h.s.patch = patch
                    /\ h.s.undo = undo
                    /\ h.s.redo = redo
                /\ ~h.s.fault =>
                    /\ h.tab.insert_index < n
                    /\ tab.insert_index < n =>
                        h.tab.insert_index = (tab.insert_index + 1) % n

\* '.' on the last slot of an element with a slot still empty: nothing
\* decodes and the index is back at 0
UndecodedKeystrokeWitness ==
    /\ last = "nodecode" /\ ~fault
    /\ tab.insert_index = 0
    /\ tab.insert_vector[element_input_size(tab)] = 0
    /\ tab.insert_vector[1] # 0
    /\ patch # {}

\* C23: the decode rule.  The element's digit slots decode exactly when they
\* form a numeral of the radix whose value v is below 2^(8w), w the element
\* width; the run then has w bytes, byte i being (v >> 8i) mod 256.
DecodeRule ==
    last = "input" =>
        \A c \in Typed(tab.element_mode) :
            LET h == handle_insert_key(St, tab, c)
                s == SlotsAfter(tab, c)
                r == element_mode_base(tab.element_mode)
                w == tab.element_display
            IN  /\ h.got_input <=>
                    (IsNumeral(s, r) /\ ValueOf(s, r) < 2 ^ (8 * w))
                /\ h.got_input =>
                    /\ Len(h.vv) = w
                    /\ \A i \in 0..(w - 1) :
                        h.vv[i + 1] = (ValueOf(s, r) \div (2 ^ (8 * i))) % 256
                /\ (~h.got_input /\ ~h.s.fault) => h.s.patch = patch

\* a decimal numeral too large for the element was typed in full, and
\* nothing was committed
DecodeRuleWitness ==
    /\ last = "nodecode" /\ ~fault
    /\ tab.element_mode = "Dec"
    /\ LET s == SubSeq(tab.insert_vector, 1, element_input_size(tab))
       IN  IsNumeral(s, 10) /\ ValueOf(s, 10) >= 2 ^ (8 * tab.element_display)
    /\ undo = <<>>

\* the window [off, off + sz) freshly loaded from the disk of s
FreshBlock(s, off, sz) ==
    [Block_new(sz) EXCEPT !.offset = off, !.buffer = FreshLoad(s.disk, off, sz)]

\* C24: overlay application clips at the window bound.  For every window
\* that starts inside the file, applying the overlay to the freshly loaded
\* window completes without fault, leaves working at the window's size, and
\* changes only bytes that a pending run keyed inside the window covers; a
\* run keyed inside the window that reaches past its upper edge is applied
\* up to the edge.
ApplyClips ==
    ~fault =>
        \A off \in 0..(Len(disk) - 1), sz \in 1..MaxSize :
            LET blk == FreshBlock(St, off, sz)
                a == do_apply_patch(blk, patch)
                inside == {e \in patch : off <= e[1] /\ e[1] < off + sz}
            IN  /\ a.status = "ok"
                /\ Len(a.buffer) = sz
                /\ \A i \in 1..sz :
                    LET c == Covering(inside, off + i - 1)
                    IN  a.buffer[i] = IF c = {} THEN blk.buffer[i]
                                      ELSE ByteAt(Highest(c), off + i - 1)

\* the runs an edit, an undo or a redo can set at the offset key of s: a new
\* run of either width, or the bytes of a log entry
SetRuns(s) ==
    {EditRun(MaxEdits + 1, w) : w \in ElementSizes}
        \cup {s.undo[i].data : i \in 1..Len(s.undo)}
        \cup {s.redo[i].data : i \in 1..Len(s.redo)}

\* C25: overlay set is a whole-run replace.  In every state the overlay has
\* exactly one run per key; and after set(o, r), for any offset o and run r,
\* the overlay maps o to exactly r (nothing of an earlier, longer run is
\* left), has the keys it had and o, and every other key keeps its run.
SetReplacesRun ==
    /\ \A e, g \in patch : e[1] = g[1] => e = g
    /\ \A o \in 0..(FileLen + MaxSize), r \in SetRuns(St) :
        LET p == do_update_patch(patch, o, r)
        IN  /\ Keys(p) = Keys(patch) \cup {o}
            /\ \A e \in p : e[1] = o => e[2] = r
            /\ \A e, g \in p : e[1] = g[1] => e = g
            /\ \A e \in p : e[1] # o => e \in patch
            /\ \A e \in patch : e[1] # o => e \in p

\* a 1-byte run was set where a 2-byte run was pending: the overlay holds the
\* 1-byte run alone at that offset
SetReplacesRunWitness ==
    /\ ~fault /\ last = "edit"
    /\ Len(undo) = 4
    /\ undo[2].offset = undo[4].offset
    /\ Len(undo[2].data) = 2
    /\ patch = {<<undo[4].offset, undo[4].data>>}
    /\ Len(undo[4].data) = 1

\* C26: overlay lifetime.  The overlay is empty when the file has been
\* opened.  A step that is not a flush returning Ok (an edit, an undo, a redo,
\* a window command, a search, a hit jump, a failed flush) removes no key of
\* the overlay, and a flush returning Ok leaves it empty.  So the undo that
\* follows an edit leaves an entry at the edit's offset, holding the bytes
\* logged before the edit.  (A fault ends the process, and the overlay with
\* it.)
OverlayLifetime ==
    /\ patch = {}
    /\ [][/\ last' = "flushOk" => patch' = {}
          /\ (last' # "flushOk" /\ ~fault') => Keys(patch) \subseteq Keys(patch')
          /\ (last = "edit" /\ last' = "undo" /\ ~fault') =>
                <<undo[Len(undo)].offset, undo[Len(undo) - 1].data>> \in patch'
         ]_vars

\* an edit was undone, then searched over and jumped from: its offset is
\* still a key of the overlay
OverlayLifetimeWitness ==
    /\ ~fault /\ last = "hit"
    /\ undo = <<>> /\ Len(redo) = 2
    /\ redo[1].offset \in Keys(patch)
    /\ Run(patch, redo[1].offset) = redo[2].data
    /\ hhits.hits # <<>>
    /\ disk = InitDisk

\* C27: undo and redo move one pre/post pair.  Both logs hold whole pairs.
\* With a pair on the undo log, undo pops its two entries, leaves the
\* overlay mapping the pair's offset to the pre-edit bytes (the earlier of
\* the two entries) and appends both entries to the redo log, so that the
\* redo that follows leaves the overlay mapping that offset to the post-edit
\* bytes and both logs as they were.  Redo mirrors this with a pair on the
\* redo log.  Both keep the number of entries of the two logs together.
UndoMovesPair ==
    ~fault =>
        /\ Len(undo) % 2 = 0
        /\ Len(redo) % 2 = 0
        /\ Len(undo) >= 2 =>
            LET m == Len(undo)
                n == Len(redo)
                pre == undo[m - 1]
                post == undo[m]
                t == do_undo(St)
                r == do_redo(t)
            IN  /\ pre.offset = post.offset
                /\ Len(pre.data) = Len(post.data)
                /\ t.undo = SubSeq(undo, 1, m - 2)
                /\ {e \in t.patch : e[1] = pre.offset} =
                        {<<pre.offset, pre.data>>}
                /\ Len(t.redo) = n + 2
                /\ SubSeq(t.redo, 1, n) = redo
                /\ {t.redo[n + 1], t.redo[n + 2]} = {pre, post}
                /\ Len(t.undo) + Len(t.redo) = m + n
                /\ {e \in r.patch : e[1] = post.offset} =
                        {<<post.offset, post.data>>}
                /\ r.undo = undo
                /\ r.redo = redo
        /\ Len(redo) >= 2 =>
            LET m == Len(undo)
                n == Len(redo)
                post == redo[n - 1]
                pre == redo[n]
                t == do_redo(St)
                u == do_undo(t)
            IN  /\ pre.offset = post.offset
                /\ t.redo = SubSeq(redo, 1, n - 2)
                /\ {e \in t.patch : e[1] = post.offset} =
                        {<<post.offset, post.data>>}
                /\ t.undo = undo \o <<pre, post>>
                /\ Len(t.undo) + Len(t.redo) = m + n
                /\ {e \in u.patch : e[1] = pre.offset} =
                        {<<pre.offset, pre.data>>}
                /\ u.undo = undo
                /\ u.redo = redo

\* the later of two edits was undone: the overlay holds its pre-edit bytes at
\* its offset, and its pair is on the redo log
UndoMovesPairWitness ==
    /\ ~fault /\ last = "undo"
    /\ Len(undo) = 2 /\ Len(redo) = 2
    /\ <<redo[2].offset, redo[2].data>> \in patch
    /\ redo[1].data # redo[2].data

\* C28: a committed edit leaves the redo log as it was.  So when the pair on
\* top of the redo log (an undone edit A) has the offset of the new edit B,
\* the redo that follows sets the overlay at that offset to A's post-edit
\* bytes, in place of B's run, and puts A's pair back on the undo log above
\* B's pair.
EditKeepsRedo ==
    ~fault =>
        \A w \in ElementSizes, pos \in Positions :
            LET B == EditRun(NEdits + 1, w)
                h == handle_insert(St, pos, B)
                key == block.offset + pos
                m == Len(undo)
                n == Len(redo)
                r == do_redo(h)
            IN  ~h.fault =>
                    /\ h.redo = redo
                    /\ (n >= 2 /\ redo[n].offset = key) =>
                        /\ {e \in r.patch : e[1] = key} =
                                {<<key, redo[n - 1].data>>}
                        /\ Len(r.undo) = m + 4
                        /\ SubSeq(r.undo, 1, m) = undo
                        /\ r.undo[m + 2] = [offset |-> key, data |-> B]
                        /\ r.undo[m + 3] = redo[n]
                        /\ r.undo[m + 4] = redo[n - 1]
                        /\ r.redo = SubSeq(redo, 1, n - 2)

\* edit A, undo, edit B at A's offset, redo: A's bytes are pending again and
\* A's pair lies above B's on the undo log
EditKeepsRedoWitness ==
    /\ ~fault /\ last = "redo"
    /\ Len(undo) = 4 /\ redo = <<>>
    /\ undo[2].offset = undo[4].offset
    /\ undo[2].data = EditRun(2, Len(undo[2].data))
    /\ undo[4].data = EditRun(1, Len(undo[4].data))
    /\ <<undo[4].offset, undo[4].data>> \in patch

\* C29: a flush is correct for a run that crosses the end of its aligned
\* region.  For a pending run with key k and length n, (k mod WRITE_BLOCK) +
\* n > WRITE_BLOCK and k + n <= file length, the flush with no I/O failure
\* returns Ok and the file then holds the run's bytes (at each offset where
\* no pending run with a higher key covers it).
FlushCrossesRegions ==
    ~fault =>
        \A e \in patch :
            (/\ (e[1] % WRITE_BLOCK) + Len(e[2]) > WRITE_BLOCK
             /\ e[1] + Len(e[2]) <= Len(disk)
             /\ e[1] < size) =>
                LET w == write(St, 0)
                IN  /\ w.status = "ok"
                    /\ \A o \in e[1]..(e[1] + Len(e[2]) - 1) :
                        Highest(Covering(patch, o)) = e =>
                            w.s.disk[o + 1] = ByteAt(e, o)

\* the effective content of s through the freshly loaded window
\* [off, off + sz): the bytes on disk with the overlay applied
View(s, off, sz) == do_apply_patch(FreshBlock(s, off, sz), s.patch)

\* C30: undo restores content.  After any sequence of committed edits, one
\* more committed edit followed by one undo (each followed by the overlay
\* application of its tick) leaves the effective content, through every
\* freshly loaded window that starts inside the file, as it was before that
\* edit.  (Stated for the windows on which both overlay applications
\* complete.)
UndoRestoresContent ==
    ~fault =>
        \A w \in ElementSizes, pos \in Positions :
            LET h == Applied(handle_insert(St, pos, EditRun(NEdits + 1, w)))
                u == Applied(do_undo(h))
            IN  ~h.fault =>
                    /\ ~u.fault
                    /\ \A off \in 0..(Len(disk) - 1), sz \in 1..MaxSize :
                        (/\ View(St, off, sz).status = "ok"
                         /\ View(u, off, sz).status = "ok") =>
                            View(u, off, sz).buffer = View(St, off, sz).buffer

\* ------------------------------------------------- hit navigation (SpecHits)
\* run_app on the file d, then at most one edit at the start of the window
InitHits ==
    \E d \in SearchFiles, w \in {0, 1} :
        LET s0 == sync_file(File_new(d), "ok")
            s == IF s0.fault THEN s0
                 ELSE sync_file(handle_insert(s0, 0, EditRun(1, w)), "ok")
            u == IF s.fault THEN Crashed(d) ELSE s
        IN  /\ disk = u.disk
            /\ size = u.size
            /\ block = u.block
            /\ patch = u.patch
            /\ undo = u.undo
            /\ redo = u.redo
            /\ hhits = u.hhits
            /\ fault = u.fault
            /\ lastread = u.lastread
            /\ last = "init"
            /\ edited = {}
            /\ tab = Tab_new

\* searches, then 'n', 'N', Ctrl+'n' and Ctrl+'N' in any order
NextHits ==
    \/ SearchAny
    \/ KeyNextHit
    \/ KeyPrevHit

SpecHits == InitHits /\ [][NextHits]_vars

RECURSIVE NextTimes(_, _, _)
NextTimes(s, k, ctrl) ==
    IF k = 0 THEN s ELSE NextTimes(next_hit(s, ctrl), k - 1, ctrl)

\* what hit navigation must leave alone
SameContent(s, t) ==
    /\ t.patch = s.patch
    /\ t.undo = s.undo
    /\ t.redo = s.redo
    /\ t.disk = s.disk
    /\ t.fault = s.fault

\* C31: with a selected group of n > 0 hits, next_hit selects hit
\* (selected + 1) mod n and prev_hit hit (selected - 1) mod n, and each moves
\* the window to the selected hit, which the sync that follows loads when it
\* is not the window's offset already; prev_hit after next_hit restores the
\* selection and n times next_hit returns to it.  With Ctrl the same holds for
\* the selected group among the m groups.  Overlay, logs and disk stay.
HitNavigation ==
    (~fault /\ hhits.hits # <<>>) =>
        LET m == Len(hhits.hits)
            g == hhits.selected + 1
            grp == hhits.hits[g]
            n == Len(grp.hits)
            nx == next_hit(St, FALSE)
            pv == prev_hit(St, FALSE)
            gnx == next_hit(St, TRUE)
            gpv == prev_hit(St, TRUE)
        IN  /\ n > 0 =>
                /\ nx.hhits.hits[g].selected = (grp.selected + 1) % n
                /\ pv.hhits.hits[g].selected = (grp.selected + n - 1) % n
                /\ \A t \in {nx, pv} :
                    /\ t.hhits.selected = hhits.selected
                    /\ t.block.offset = grp.hits[t.hhits.hits[g].selected + 1]
                    /\ t.block.offset # block.prev_offset =>
                        /\ need_block(t)
                        /\ LET v == sync_file(t, "ok")
                           IN  ~v.fault => v.block.prev_offset = t.block.offset
                    /\ SameContent(St, t)
                /\ prev_hit(nx, FALSE).hhits = hhits
                /\ next_hit(pv, FALSE).hhits = hhits
                /\ NextTimes(St, n, FALSE).hhits = hhits
                /\ \A k \in 1..(n - 1) : NextTimes(St, k, FALSE).hhits # hhits
            /\ gnx.hhits.selected = (hhits.selected + 1) % m
            /\ gpv.hhits.selected = (hhits.selected + m - 1) % m
            /\ \A t \in {gnx, gpv} :
                LET sel == hhits.hits[t.hhits.selected + 1]
                IN  /\ t.hhits.hits = hhits.hits
                    /\ sel.hits # <<>> => t.block.offset = sel.hits[sel.selected + 1]
                    /\ SameContent(St, t)
            /\ prev_hit(gnx, TRUE).hhits = hhits
            /\ next_hit(gpv, TRUE).hhits = hhits
            /\ NextTimes(St, m, TRUE).hhits = hhits
            /\ \A k \in 1..(m - 1) : NextTimes(St, k, TRUE).hhits # hhits

\* a pending edit, two groups, the second one selected, and in it the hit
\* after the first selected by going backwards from the third
HitNavigationWitness ==
    /\ ~fault
    /\ last = "hit"
    /\ patch # {}
    /\ Len(hhits.hits) = 2
    /\ hhits.selected = 1
    /\ Len(hhits.hits[2].hits) = 3
    /\ hhits.hits[2].selected = 1
    /\ block.offset = hhits.hits[2].hits[2]

\* C36: the selected group's index is below the number of groups whenever
\* there are groups, each group's selected index is below its number of hits
\* whenever it has hits, and with no group at all next_hit and prev_hit
\* without Ctrl complete without a fault and leave all state as it is.
HitsInRange ==
    ~fault =>
        /\ hhits.hits # <<>> => InRange(hhits.hits, hhits.selected)
        /\ \A g \in 1..Len(hhits.hits) :
            hhits.hits[g].hits # <<>> =>
                InRange(hhits.hits[g].hits, hhits.hits[g].selected)
        /\ hhits.hits = <<>> =>
            /\ next_hit(St, FALSE) = St
            /\ prev_hit(St, FALSE) = St

\* ------------------------------------------- the insert cursor (SpecTab)
\* ELEMENT_MODES and ELEMENT_DISPLAYS, in the order the keys cycle through
ELEMENT_MODES == <<"Hex", "Dec", "Oct", "Bin">>
ELEMENT_DISPLAYS == <<1, 2>>

\* `x as usize` of an enum value: its 0-based place in the table
Ordinal(table, x) == (CHOOSE i \in 1..Len(table) : table[i] = x) - 1

\* App::next_mode and App::prev_mode ('i', 'I'), display == Display::Element
next_mode(ti) ==
    [ti EXCEPT !.element_mode =
        ELEMENT_MODES[((Ordinal(ELEMENT_MODES, ti.element_mode) + 1)
                       % Len(ELEMENT_MODES)) + 1]]

prev_mode(ti) ==
    [ti EXCEPT !.element_mode =
        ELEMENT_MODES[((Ordinal(ELEMENT_MODES, ti.element_mode)
                        + Len(ELEMENT_MODES) - 1) % Len(ELEMENT_MODES)) + 1]]

\* App::next_element and App::prev_element ('o', 'O')
next_element(ti) ==
    [ti EXCEPT !.element_display =
        ELEMENT_DISPLAYS[((Ordinal(ELEMENT_DISPLAYS, ti.element_display) + 1)
                          % Len(ELEMENT_DISPLAYS)) + 1]]

prev_element(ti) ==
    [ti EXCEPT !.element_display =
        ELEMENT_DISPLAYS[((Ordinal(ELEMENT_DISPLAYS, ti.element_display)
                           + Len(ELEMENT_DISPLAYS) - 1) % Len(ELEMENT_DISPLAYS)) + 1]]

\* App::handle_show for the kinds byte, word, ...: the command "show K M"
handle_show(ti, kind, mode) ==
    [ti EXCEPT !.element_display = kind, !.element_mode = mode]

\* App::on_insert
on_insert(ti) == [ti EXCEPT !.insert_mode = ~ti.insert_mode]

\* App::on_left, on_up and on_pageup in insert mode with the cursor at home:
\* the cursor stays at column 0 of row 0 and the insert index is reset
on_left(ti) == [ti EXCEPT !.insert_index = 0]

\* the digit key of SpecTab
TabKeys == {48}

\* '0' in insert mode: App::handle_insert
TabDigit ==
    /\ ~fault
    /\ tab.insert_mode
    /\ NEdits < MaxEdits
    /\ \E c \in TabKeys :
        LET h == handle_insert_key(St, tab, c)
        IN  /\ \E t \in Sync(h.s) : Set(t)
            /\ tab' = IF h.s.fault THEN Tab_new ELSE h.tab
            /\ last' = IF h.got_input THEN "commit" ELSE "nodecode"
    /\ UNCHANGED edited

\* a key that changes the tab only, then sync_file
TabSet(ti) ==
    /\ \E t \in Sync(St) : Set(t)
    /\ tab' = IF fault' THEN Tab_new ELSE ti
    /\ UNCHANGED edited

\* Left, Up or PageUp in insert mode
TabCursor ==
    /\ ~fault
    /\ tab.insert_mode
    /\ TabSet(on_left(tab))
    /\ last' = "cursor"

\* Insert
TabInsert ==
    /\ ~fault
    /\ TabSet(on_insert(tab))
    /\ last' = "insert"

\* 'i' and 'I' outside insert mode
TabMode ==
    /\ ~fault
    /\ ~tab.insert_mode
    /\ \E ti \in {next_mode(tab), prev_mode(tab)} : TabSet(ti)
    /\ last' = "mode"

\* 'o' and 'O' outside insert mode
TabElement ==
    /\ ~fault
    /\ ~tab.insert_mode
    /\ \E ti \in {next_element(tab), prev_element(tab)} : TabSet(ti)
    /\ last' = "element"

\* the command "show K M", the prompt being opened outside insert mode
TabShow ==
    /\ ~fault
    /\ ~tab.insert_mode
    /\ \E kind \in ElementSizes, mode \in ElementModes :
        TabSet(handle_show(tab, kind, mode))
    /\ last' = "show"

NextTab ==
    \/ TabDigit
    \/ TabCursor
    \/ TabInsert
    \/ TabMode
    \/ TabElement
    \/ TabShow

SpecTab == Init /\ [][NextTab]_vars

\* C32: in every state the insert index is below the digits of the current
\* element (its bytes times the digits per byte of the mode), and these
\* digits never exceed the slots of the digit buffer.
InsertIndexInElement ==
    /\ tab.insert_index < element_input_size(tab)
    /\ element_input_size(tab) <= InsertSlots

\* ------------------------------------------------------- C31..C40 on Spec
\* the entry is the run an edit wrote, the other one the bytes it replaced
PrePost(pre, post) ==
    /\ pre.offset = post.offset
    /\ Len(pre.data) = Len(post.data)
    /\ \E n \in 1..MaxEdits :
        /\ post.data = EditRun(n, Len(post.data))
        /\ \A i \in 1..Len(pre.data) :
            \A j \in 1..Len(pre.data) : pre.data[i] # EditRun(n, j)[j]

\* both logs are made of pairs: (pre, post) from the bottom of the undo log,
\* (post, pre) from the bottom of the redo log
Paired ==
    /\ Len(undo) % 2 = 0
    /\ Len(redo) % 2 = 0
    /\ \A i \in 1..(Len(undo) \div 2) : PrePost(undo[2 * i - 1], undo[2 * i])
    /\ \A i \in 1..(Len(redo) \div 2) : PrePost(redo[2 * i], redo[2 * i - 1])
    /\ undo # <<>> =>
        /\ Len(do_undo(St).undo) = Len(undo) - 2
        /\ Len(do_undo(St).redo) = Len(redo) + 2
    /\ redo # <<>> =>
        /\ Len(do_redo(St).redo) = Len(redo) - 2
        /\ Len(do_redo(St).undo) = Len(undo) + 2

\* C33: in every state the undo log and the redo log each hold an even
\* number of entries, made of (pre, post) pairs in the undo log and of
\* (post, pre) pairs in the redo log, the two entries of a pair with one
\* offset and one length, so that undo and redo move two entries whenever
\* their log is not empty; and the two lengths together are twice the number
\* of edits committed: both logs start empty, a committed edit adds two
\* entries, and no other step of a running program changes the sum.
LogPairing ==
    /\ undo = <<>>
    /\ redo = <<>>
    /\ []Paired
    /\ [][~fault' =>
            Len(undo') + Len(redo') =
                Len(undo) + Len(redo) + (IF last' = "edit" THEN 2 ELSE 0)]_vars

\* an edit undone and redone under another edit undone: a pair in each log
LogPairingWitness ==
    /\ ~fault
    /\ last = "redo"
    /\ Len(undo) = 2
    /\ Len(redo) = 2
    /\ undo[1].offset = redo[1].offset

\* C34: after edits of different widths at different offsets whose byte
\* ranges overlap, and the overlay applied by the sync that follows, every
\* byte of the window an edit has covered holds what the most recent edit
\* covering it wrote.
MostRecentEditWins ==
    (/\ ~fault
     /\ last = "edit"
     /\ edited # Void
     /\ redo = <<>>
     /\ Len(undo) = 2 * Cardinality(patch)) =>
        \A x \in edited :
            (block.offset <= x[1] /\ x[1] < block.offset + Len(block.buffer)) =>
                block.buffer[x[1] - block.offset + 1] = x[2]

\* sync_file after a handler that may have panicked
Synced(s) == IF s.fault THEN s ELSE Applied(s)

\* edit, flush, undo, flush from the state s, each followed by sync_file and
\* with I/O that succeeds: the state after each step
EditFlushUndoFlush(s, pos, vv) ==
    LET e == Synced(handle_insert(s, pos, vv))
        f1 == IF e.fault THEN e ELSE Synced(write(e, 0).s)
        u == IF f1.fault THEN f1 ELSE Synced(do_undo(f1))
        f2 == IF u.fault THEN u ELSE Synced(write(u, 0).s)
    IN  [edit |-> e, flush |-> f1, undo |-> u, last |-> f2]

\* C35: a flush leaves the undo log and the redo log as they are, so that an
\* edit that was saved can still be undone: from a file without edits, an
\* edit, a flush, an undo and a flush leave every byte of the disk as it was
\* at the start; the undo after the first flush moves the edit's pair to the
\* redo log and the second flush has the overlay empty again.
FlushKeepsLogs ==
    ~fault =>
        /\ \A f \in FlushIO(St) :
            LET w == write(St, f)
            IN  w.status # "panic" => (w.s.undo = undo /\ w.s.redo = redo)
        /\ (undo = <<>> /\ redo = <<>> /\ patch = {}) =>
            \A w \in ElementSizes, pos \in Positions :
                LET r == EditFlushUndoFlush(St, pos, EditRun(1, w))
                IN  /\ r.last.disk = disk
                    /\ ~r.last.fault =>
                        /\ r.flush.undo = r.edit.undo
                        /\ r.flush.redo = <<>>
                        /\ r.flush.patch = {}
                        /\ r.undo.undo = <<>>
                        /\ Len(r.undo.redo) = 2
                        /\ r.last.patch = {}
                        /\ r.last.redo = r.undo.redo

\* an edit was flushed and then undone: the disk holds its bytes, the
\* overlay the bytes it replaced, and the flush to come puts them back
FlushKeepsLogsWitness ==
    /\ ~fault
    /\ last = "undo"
    /\ undo = <<>>
    /\ Len(redo) = 2
    /\ disk # InitDisk
    /\ patch = {<<redo[2].offset, redo[2].data>>}
    /\ write(St, 0).status = "ok"
    /\ write(St, 0).s.disk = InitDisk

\* ------------------------------------------- the window's range (SpecRange)
\* Tab::print_width: 16 when the tab is opened, changed by '[' and ']'
PrintWidths == 1..MaxSize

\* App::on_down and App::on_up outside insert mode
on_down(s, pw) ==
    [s EXCEPT !.block.offset =
        IF s.block.offset < U64_MAX - pw THEN s.block.offset + pw ELSE U64_MAX]

on_up(s, pw) ==
    [s EXCEPT !.block.offset =
        IF s.block.offset >= pw THEN s.block.offset - pw ELSE 0]

\* the command "offset N", N any u64
CmdOffsetAny ==
    /\ ~fault
    /\ \E o \in 0..U64_MAX : \E t \in Sync(set_block_offset(St, o)) : Set(t)
    /\ last' = "window"
    /\ UNCHANGED <<edited, tab>>

\* Down outside insert mode
KeyDown ==
    /\ ~fault
    /\ \E pw \in PrintWidths : \E t \in Sync(on_down(St, pw)) : Set(t)
    /\ last' = "down"
    /\ UNCHANGED <<edited, tab>>

\* Up outside insert mode
KeyUp ==
    /\ ~fault
    /\ \E pw \in PrintWidths : \E t \in Sync(on_up(St, pw)) : Set(t)
    /\ last' = "up"
    /\ UNCHANGED <<edited, tab>>

NextRange ==
    \/ CmdOffsetAny
    \/ KeyDown
    \/ KeyUp
    \/ CmdBlockSize
    \/ KeyInsert

SpecRange == Init /\ [][NextRange]_vars

\* the windows the next input can ask for
WindowsAsked ==
    {set_block_offset(St, o) : o \in 0..U64_MAX}
        \cup {on_down(St, pw) : pw \in PrintWidths}

\* C37: for every window offset the program can be given (the command
\* "offset" takes any u64, Down saturates at u64::MAX) and every size >= 1,
\* the sum offset + size of the overlay application fits the integer and
\* the range of keys it selects is [offset, offset + size), well formed.
WindowRangeFits ==
    ~fault =>
        \A t \in WindowsAsked :
            LET r == app_read_block(t, "ok")
                kr == key_range(r.block)
            IN  ~r.fault =>
                    /\ r.block.size >= 1
                    /\ r.block.offset + r.block.size <= U64_MAX
                    /\ kr.ok
                    /\ kr.min = r.block.offset
                    /\ kr.max = r.block.offset + r.block.size

\* ------------------------------------------------ C38, C39 on SpecSearch
\* the chunk read at offset c of a search for pat, as read_block leaves it
ChunkRead(d, pat, c) ==
    read_block(d, NEW_BLOCK_SIZE + Len(pat) - 1, c, Len(d), <<>>, "ok").buffer

\* C38: every offset h a search reports for a pattern of length L has
\* h + L <= the file's length and the file's bytes at [h, h + L) equal to the
\* pattern; the padding read_block puts after the end of the file is never
\* part of a match: in no chunk does the pattern occur at a place whose L
\* bytes reach into the padding.
SearchSound ==
    ~fault =>
        /\ \A g \in 1..Len(hhits.hits) :
            LET grp == hhits.hits[g]
                L == Len(grp.flag)
            IN  \A j \in 1..Len(grp.hits) :
                    /\ grp.hits[j] + L <= Len(disk)
                    /\ SubSeq(disk, grp.hits[j] + 1, grp.hits[j] + L) = grp.flag
        /\ \A pat \in SearchPatterns :
            \A c \in {c \in 0..Len(disk) : c % NEW_BLOCK_SIZE = 0 /\ c < Len(disk)} :
                LET buf == ChunkRead(disk, pat, c)
                IN  /\ Len(buf) = NEW_BLOCK_SIZE + Len(pat) - 1
                    /\ \A i \in 0..Len(buf) :
                        Occurs(buf, pat, i) => c + i + Len(pat) <= Len(disk)

\* a search has reported a match that ends with the file's last byte, read
\* in a chunk that was padded
SearchSoundWitness ==
    /\ ~fault
    /\ last = "search"
    /\ Len(disk) % NEW_BLOCK_SIZE # 0
    /\ \E g \in 1..Len(hhits.hits) :
        LET grp == hhits.hits[g]
        IN  /\ grp.hits # <<>>
            /\ grp.hits[Len(grp.hits)] + Len(grp.flag) = Len(disk)
            /\ FILL \in {ChunkRead(disk, grp.flag,
                                   grp.hits[Len(grp.hits)]
                                       - (grp.hits[Len(grp.hits)] % NEW_BLOCK_SIZE))[i] :
                            i \in 1..(NEW_BLOCK_SIZE + Len(grp.flag) - 1)}

\* C39: for every file, the empty one included, and every pattern, a search
\* whose reads succeed ends, after exactly ceil(length / chunk size) passes
\* of its loop (none for the empty file), the offset scanned being 0 in the
\* first pass and one chunk size further in each pass after it, whatever
\* matched.
SearchTerminates ==
    \A pat \in SearchPatterns :
        LET r == handle_search(St, pat, 0)
            n == (Len(disk) + NEW_BLOCK_SIZE - 1) \div NEW_BLOCK_SIZE
        IN  /\ r.status = "ok"
            /\ Len(r.scanned) = n
            /\ \A i \in 1..n : r.scanned[i] = (i - 1) * NEW_BLOCK_SIZE
            /\ (disk = <<>>) => (r.scanned = <<>> /\ r.found = 0)

\* a search has gone through three chunks, the last one cut short by the end
\* of the file, and has two matches in one of them, of which one is reported
SearchTerminatesWitness ==
    /\ ~fault
    /\ last = "search"
    /\ Len(disk) = 2 * NEW_BLOCK_SIZE + 1
    /\ \E g \in 1..Len(hhits.hits) :
        /\ hhits.hits[g].flag = <<1>>
        /\ Len(hhits.hits[g].hits) = 3
        /\ disk[1] = 1
        /\ disk[2] = 1

\* C40: applying the overlay to a window a second time leaves `working` as
\* the first application left it, and the overlay's entries are the same
\* before and after: for the program's window, which every step leaves with
\* the overlay applied, and for every window loaded from the disk.
ApplyIdempotent ==
    ~fault =>
        /\ do_apply_patch(block, patch) = [buffer |-> block.buffer, status |-> "ok"]
        /\ Applied(St).patch = patch
        /\ Applied(Applied(St)) = Applied(St)
        /\ \A off \in Offsets, sz \in 1..MaxSize :
            LET once == View(St, off, sz)
                twice == do_apply_patch(
                             [FreshBlock(St, off, sz) EXCEPT !.buffer = once.buffer],
                             patch)
            IN  once.status = "ok" => twice = once

\* two runs of the overlay overlap in the window, and applying them changes
\* bytes the window was loaded with
ApplyIdempotentWitness ==
    /\ ~fault
    /\ block.buffer # block.source
    /\ \E e1 \in patch, e2 \in patch :
        /\ block.offset <= e1[1]
        /\ e1[1] < e2[1]
        /\ e2[1] < e1[1] + Len(e1[2])
        /\ e2[1] + Len(e2[2]) <= block.offset + Len(block.buffer)

====
